---- MODULE Spec2Model ----
(***************************************************************************)
(* State-machine model of the neurogame task scheduler                     *)
(* (src/game/task_manager.py), the task objects it owns                    *)
(* (src/game/tasks/*.py) and the part of the main loop that drives them    *)
(* (src/game/app.py, GameApp.run).                                         *)
(*                                                                         *)
(* Conventions                                                             *)
(*  - Python's None is the empty sequence, a present value v is <<v>>.     *)
(*  - Floats of the configuration are fixed-point integers: probabilities  *)
(*    and rates in thousandths, time_pressure in hundredths,               *)
(*    event_rate_sec in milliseconds.                                      *)
(*  - Time is in milliseconds; the driver's clock moves on a grid of       *)
(*    TickMs.                                                              *)
(*  - random.Random is a small linear congruential generator: like the     *)
(*    Mersenne Twister it is a deterministic function of its seed, and     *)
(*    every draw advances its state.                                       *)
(***************************************************************************)
EXTENDS Integers, Sequences, FiniteSets, TLC

VARIABLES
    tm,          \* the TaskManager object the main loop drives
    results,     \* GameApp.results: every TaskResult handed back, in order
    now,         \* last timestamp passed to the scheduler / task
    emitted,     \* history: <<serial, by>> of every TaskResult produced
    tm2,         \* second, independently constructed TaskManager (replay)
    results2,    \* the TaskResults handed back by tm2
    task,        \* a task object driven directly through the Task contract
    got,         \* history: what get_result() returned for `task`
    delivered,   \* history: the events of the last frame of the main loop
    app,         \* the GameApp fields behind level, tempo and adaptation
    config       \* a base DifficultyConfig and what level and tempo make of it

vars == <<tm, results, now, emitted, tm2, results2, task, got, delivered, app, config>>

----------------------------------------------------------------------------
(* Bounds of the model *)

MaxTicks == 7
TickMs == 300
MaxTotal == 2
MaxFrameEvents == 1
MaxGets == 2

Times == {k * TickMs : k \in 0..MaxTicks}

----------------------------------------------------------------------------
(* Python values *)

None == <<>>
Some(v) == <<v>>
IsNone(x) == x = <<>>
Val(x) == x[1]

Max(a, b) == IF a >= b THEN a ELSE b
Min(a, b) == IF a <= b THEN a ELSE b

----------------------------------------------------------------------------
(* random.Random *)

\* number of states of the generator
RngMod == 16

\* Mutant: the generator is created without the seed and takes its state
\* from the operating system.
RngSeed_unseeded(seed, entropy) == entropy % RngMod

\* random.Random(seed): the stream depends on the seed only; `entropy` is
\* what an unseeded generator would have read from the operating system.
RngSeed(seed, entropy) == seed % RngMod

\* One draw: the generator's next state, which is also the value drawn
\* (value / RngMod is the float in [0, 1)).
RngNext(rng) == (5 * rng + 3) % RngMod

RECURSIVE RngSkip(_, _)
RngSkip(rng, k) == IF k <= 0 THEN rng ELSE RngSkip(RngNext(rng), k - 1)

\* rng.random() < p, p in thousandths
Below(draw, perMille) == draw * 1000 < perMille * RngMod

\* index (0-based) picked by rng.choice / rng.randrange over n items
Pick(draw, n) == (draw * n) \div RngMod

----------------------------------------------------------------------------
(* pygame events and the response alphabet *)

KeyEvent(key, unicode) == [type |-> "KEYDOWN", key |-> key, unicode |-> unicode]

\* The events a frame can deliver: a response key, a key of a Cyrillic
\* layout (with shift) whose character is a response, and a mouse click.
Events ==
    { KeyEvent("K_f", "f"),
      KeyEvent("K_unknown", "CYR_O"),
      [type |-> "MOUSEBUTTONDOWN", key |-> "", unicode |-> ""] }

LEFT_KEYS == {"K_f", "K_a"}
RIGHT_KEYS == {"K_j", "K_o"}
LEFT_CHARS == {"f", "a", "cyr_a"}
RIGHT_CHARS == {"j", "o", "cyr_o"}

\* str.lower() on the characters the events carry
Lower(ch) ==
    CASE ch = "F" -> "f" [] ch = "A" -> "a" [] ch = "J" -> "j"
      [] ch = "O" -> "o" [] ch = "CYR_A" -> "cyr_a" [] ch = "CYR_O" -> "cyr_o"
      [] OTHER -> ch

read_left_right_key(event) ==
    IF event.type # "KEYDOWN" THEN None
    ELSE IF event.key \in LEFT_KEYS THEN Some("LEFT")
    ELSE IF event.key \in RIGHT_KEYS THEN Some("RIGHT")
    ELSE IF Lower(event.unicode) \in LEFT_CHARS THEN Some("LEFT")
    ELSE IF Lower(event.unicode) \in RIGHT_CHARS THEN Some("RIGHT")
    ELSE None

----------------------------------------------------------------------------
(* Task objects *)

TaskSpec(task_id, created_ms, deadline_ms, difficulty, payload) ==
    [task_id |-> task_id, created_ms |-> created_ms, deadline_ms |-> deadline_ms,
     difficulty |-> difficulty, payload |-> payload]

\* TaskBase.__init__; `serial` stands for the identity of the Python object,
\* answer_is_yes and query_ready_ms are filled in by the subclass.
TaskBase(spec, serial) ==
    [serial |-> serial,
     spec |-> spec,
     created_ms |-> spec.created_ms,
     deadline_ms |-> spec.deadline_ms,
     finished_ms |-> None,
     response |-> None,
     correct |-> FALSE,
     is_timeout |-> FALSE,
     answer_is_yes |-> FALSE,
     query_ready_ms |-> None]

\* _make_pair: code_a takes `length` draws, one draw decides whether the
\* pair differs, a differing pair takes two more (position and character).
\* Only the ground truth is kept of the generated codes.
make_pair(rng, length, similarity_rate) ==
    LET afterCode == RngSkip(rng, length)
        roll == RngNext(afterCode)
    IN  IF Below(roll, similarity_rate)
        THEN [rng |-> RngSkip(roll, 2), is_match |-> FALSE]
        ELSE [rng |-> roll, is_match |-> TRUE]

CompareCodesTask(spec, serial, rng) ==
    LET pair == make_pair(rng, spec.difficulty.code_len, spec.difficulty.similarity_rate)
    IN  [rng |-> pair.rng,
         task |-> [TaskBase(spec, serial) EXCEPT !.answer_is_yes = pair.is_match]]

MemoryAlphabetLen == 32

\* the symbols drawn by k successive rng.choice(alphabet) calls
RECURSIVE DrawSymbols(_, _)
DrawSymbols(rng, k) ==
    IF k <= 0 THEN <<>>
    ELSE LET d == RngNext(rng)
         IN  <<Pick(d, MemoryAlphabetLen)>> \o DrawSymbols(d, k - 1)

SequenceMemoryTask(spec, serial, rng) ==
    LET seq_len == spec.difficulty.seq_len
        sequence == DrawSymbols(rng, seq_len)
        queryDraw == RngNext(RngSkip(rng, seq_len))
        query_symbol == Pick(queryDraw, MemoryAlphabetLen)
        max_show == (spec.difficulty.time_limit_ms * 8) \div 10
        base_show == 900 + 200 * Len(sequence)
        show_until_ms == spec.created_ms + Min(base_show, max_show)
        ready == show_until_ms + spec.difficulty.retention_delay_ms
        latest_query == spec.deadline_ms - 200
    IN  [rng |-> queryDraw,
         task |-> [TaskBase(spec, serial) EXCEPT
                     !.answer_is_yes = \E i \in 1..Len(sequence) : sequence[i] = query_symbol,
                     !.query_ready_ms = Some(IF ready > latest_query THEN latest_query ELSE ready)]]

\* spec.difficulty carries no rule_complexity, so .get(..., 2) yields 2
RuleSwitchTask(spec, serial, rng) ==
    LET complexity == 2
        colors_count == Max(2, Min(7, complexity))
        shapes_count == Max(2, Min(7, complexity))
        d1 == RngNext(rng)
        d2 == RngNext(d1)
        d3 == RngNext(d2)
        color == Pick(d1, colors_count)
        shape == Pick(d2, shapes_count)
        rule == Val(spec.payload.rule)
        target == IF rule = "COLOR" THEN Pick(d3, colors_count) ELSE Pick(d3, shapes_count)
    IN  [rng |-> d3,
         task |-> [TaskBase([spec EXCEPT !.payload.target = Some(target)], serial) EXCEPT
                     !.answer_is_yes = IF rule = "COLOR" THEN color = target
                                       ELSE shape = target]]

is_complete(t) == ~IsNone(t.finished_ms)

\* Mutant: the deadline check is not guarded by "already finished".
Task_update_unguarded(t, now_ms) ==
    IF now_ms >= t.deadline_ms
    THEN [t EXCEPT !.is_timeout = TRUE, !.finished_ms = Some(now_ms)]
    ELSE t

\* Mutant: the deadline itself does not count as expired.
Task_update_strict(t, now_ms) ==
    IF ~IsNone(t.finished_ms) THEN t
    ELSE IF now_ms > t.deadline_ms
         THEN [t EXCEPT !.is_timeout = TRUE, !.finished_ms = Some(now_ms)]
         ELSE t

\* Mutant: a timeout is flagged but the task is not marked finished.
Task_update_unfinished(t, now_ms) ==
    IF ~IsNone(t.finished_ms) THEN t
    ELSE IF now_ms >= t.deadline_ms
         THEN [t EXCEPT !.is_timeout = TRUE]
         ELSE t

\* TaskBase.update
Task_update(t, now_ms) ==
    IF ~IsNone(t.finished_ms) THEN t
    ELSE IF now_ms >= t.deadline_ms
         THEN [t EXCEPT !.is_timeout = TRUE, !.finished_ms = Some(now_ms)]
         ELSE t

\* the words a task type records for LEFT and RIGHT
ResponseWord(task_id, key) ==
    IF task_id = "compare_codes"
    THEN (IF key = "LEFT" THEN "match" ELSE "mismatch")
    ELSE (IF key = "LEFT" THEN "yes" ELSE "no")

PositiveWord(task_id) == IF task_id = "compare_codes" THEN "match" ELSE "yes"

\* Mutant: a sequence memory takes a response while its sequence is shown.
Task_handle_event_ungated(t, event, now_ms) ==
    IF ~IsNone(t.finished_ms) THEN t
    ELSE LET key == read_left_right_key(event)
         IN  IF IsNone(key) THEN t
             ELSE LET response == ResponseWord(t.spec.task_id, Val(key))
                  IN  [t EXCEPT
                         !.response = Some(response),
                         !.correct = ((response = PositiveWord(t.spec.task_id)) = t.answer_is_yes),
                         !.finished_ms = Some(now_ms)]

\* handle_event of CompareCodesTask, SequenceMemoryTask and RuleSwitchTask
Task_handle_event(t, event, now_ms) ==
    IF ~IsNone(t.finished_ms) THEN t
    ELSE IF t.spec.task_id = "sequence_memory" /\ now_ms < Val(t.query_ready_ms) THEN t
    ELSE LET key == read_left_right_key(event)
         IN  IF IsNone(key) THEN t
             ELSE LET response == ResponseWord(t.spec.task_id, Val(key))
                  IN  [t EXCEPT
                         !.response = Some(response),
                         !.correct = ((response = PositiveWord(t.spec.task_id)) = t.answer_is_yes),
                         !.finished_ms = Some(now_ms)]

\* Mutant: the reaction time is measured from the deadline.
get_result_from_deadline(t) ==
    [task_id |-> t.spec.task_id,
     created_ms |-> t.created_ms,
     finished_ms |-> IF IsNone(t.finished_ms) \/ Val(t.finished_ms) = 0
                     THEN t.created_ms ELSE Val(t.finished_ms),
     response |-> t.response,
     correct |-> t.correct,
     rt_ms |-> IF ~IsNone(t.finished_ms)
               THEN Some(Val(t.finished_ms) - t.deadline_ms)
               ELSE None,
     is_timeout |-> t.is_timeout,
     difficulty |-> t.spec.difficulty,
     payload |-> t.spec.payload]

\* TaskBase.get_result; `x or y` takes y when x is None or 0
get_result(t) ==
    LET rt_ms == IF ~IsNone(t.finished_ms)
                 THEN Some(Val(t.finished_ms) - t.created_ms)
                 ELSE None
    IN  [task_id |-> t.spec.task_id,
         created_ms |-> t.created_ms,
         finished_ms |-> IF IsNone(t.finished_ms) \/ Val(t.finished_ms) = 0
                         THEN t.created_ms ELSE Val(t.finished_ms),
         response |-> t.response,
         correct |-> t.correct,
         rt_ms |-> rt_ms,
         is_timeout |-> t.is_timeout,
         difficulty |-> t.spec.difficulty,
         payload |-> t.spec.payload]

----------------------------------------------------------------------------
(* DifficultyConfig values the scheduler is constructed with *)

GlobalDifficulty(event_rate_sec, parallel_streams, time_pressure, task_mix) ==
    [event_rate_sec |-> event_rate_sec, parallel_streams |-> parallel_streams,
     time_pressure |-> time_pressure, task_mix |-> task_mix]

CompareCodesDifficulty == [code_len |-> 2, similarity_rate |-> 350, time_limit_ms |-> 900]
SequenceMemoryDifficulty == [seq_len |-> 2, retention_delay_ms |-> 0, time_limit_ms |-> 1200]
RuleSwitchDifficulty ==
    [rule_switch_rate |-> 250, stimulus_rate_sec |-> 2000, rule_complexity |-> 2,
     time_limit_ms |-> 900]

DifficultyConfig(global_params) ==
    [global_params |-> global_params, compare |-> CompareCodesDifficulty,
     memory |-> SequenceMemoryDifficulty, switch |-> RuleSwitchDifficulty]

\* the default task mix on one stream without time pressure and on two
\* streams with the default time pressure
Difficulties ==
    { DifficultyConfig(GlobalDifficulty(300, 1, 100, <<400, 300, 300>>)),
      DifficultyConfig(GlobalDifficulty(300, 2, 140, <<400, 300, 300>>)) }

Pauses == {0, 2 * TickMs}

----------------------------------------------------------------------------
(* TaskManager *)

\* TaskManager.__init__
TaskManager(difficulty, total_tasks, inter_task_pause_ms, seed, entropy) ==
    [difficulty |-> difficulty,
     total_tasks |-> total_tasks,
     inter_task_pause_ms |-> inter_task_pause_ms,
     rng |-> RngSeed(seed, entropy),
     active_tasks |-> <<>>,
     last_spawn_ms |-> 0,
     next_spawn_after_ms |-> 0,
     tasks_created |-> 0,
     tasks_completed |-> 0,
     current_rule |-> "COLOR"]

\* int(time_limit_ms * time_pressure), time_pressure in hundredths
Deadline(now_ms, time_limit_ms, time_pressure) ==
    now_ms + (time_limit_ms * time_pressure) \div 100

\* the identity of the next task object
NextSerial(m) == m.tasks_created + 1

create_compare_codes(m, now_ms) ==
    LET diff == m.difficulty.compare
        spec == TaskSpec("compare_codes", now_ms,
                         Deadline(now_ms, diff.time_limit_ms, m.difficulty.global_params.time_pressure),
                         [code_len |-> diff.code_len, similarity_rate |-> diff.similarity_rate,
                          time_limit_ms |-> diff.time_limit_ms],
                         [rule |-> None, target |-> None])
        made == CompareCodesTask(spec, NextSerial(m), m.rng)
    IN  [tm |-> [m EXCEPT !.rng = made.rng], task |-> made.task]

create_sequence_memory(m, now_ms) ==
    LET diff == m.difficulty.memory
        spec == TaskSpec("sequence_memory", now_ms,
                         Deadline(now_ms, diff.time_limit_ms, m.difficulty.global_params.time_pressure),
                         [seq_len |-> diff.seq_len, retention_delay_ms |-> diff.retention_delay_ms,
                          time_limit_ms |-> diff.time_limit_ms],
                         [rule |-> None, target |-> None])
        made == SequenceMemoryTask(spec, NextSerial(m), m.rng)
    IN  [tm |-> [m EXCEPT !.rng = made.rng], task |-> made.task]

create_rule_switch(m, now_ms) ==
    LET diff == m.difficulty.switch
        roll == RngNext(m.rng)
        current_rule == IF Below(roll, diff.rule_switch_rate)
                        THEN (IF m.current_rule = "COLOR" THEN "SHAPE" ELSE "COLOR")
                        ELSE m.current_rule
        spec == TaskSpec("rule_switch", now_ms,
                         Deadline(now_ms, diff.time_limit_ms, m.difficulty.global_params.time_pressure),
                         [rule_switch_rate |-> diff.rule_switch_rate,
                          stimulus_rate_sec |-> diff.stimulus_rate_sec,
                          time_limit_ms |-> diff.time_limit_ms],
                         [rule |-> Some(current_rule), target |-> None])
        made == RuleSwitchTask(spec, NextSerial(m), roll)
    IN  [tm |-> [m EXCEPT !.rng = made.rng, !.current_rule = current_rule],
         task |-> made.task]

\* TaskManager._create_task
create_task(m, now_ms) ==
    LET mix == m.difficulty.global_params.task_mix
        roll == RngNext(m.rng)
        rolled == [m EXCEPT !.rng = roll]
    IN  IF Below(roll, mix[1]) THEN create_compare_codes(rolled, now_ms)
        ELSE IF Below(roll, mix[1] + mix[2]) THEN create_sequence_memory(rolled, now_ms)
        ELSE create_rule_switch(rolled, now_ms)

\* Mutant: the concurrency cap is not checked.
spawn_if_needed_uncapped(m, now_ms) ==
    IF m.tasks_created >= m.total_tasks THEN m
    ELSE LET interval_ms == m.difficulty.global_params.event_rate_sec
         IN  IF now_ms < m.next_spawn_after_ms THEN m
             ELSE IF now_ms - m.last_spawn_ms < interval_ms THEN m
             ELSE LET stamped == [m EXCEPT !.last_spawn_ms = now_ms]
                      made == create_task(stamped, now_ms)
                  IN  [made.tm EXCEPT
                         !.active_tasks = Append(made.tm.active_tasks, made.task),
                         !.tasks_created = made.tm.tasks_created + 1]

\* Mutant: the cooldown after a retirement is not checked.
spawn_if_needed_no_cooldown(m, now_ms) ==
    IF m.tasks_created >= m.total_tasks THEN m
    ELSE IF Len(m.active_tasks) >= m.difficulty.global_params.parallel_streams THEN m
    ELSE LET interval_ms == m.difficulty.global_params.event_rate_sec
         IN  IF now_ms - m.last_spawn_ms < interval_ms THEN m
             ELSE LET stamped == [m EXCEPT !.last_spawn_ms = now_ms]
                      made == create_task(stamped, now_ms)
                  IN  [made.tm EXCEPT
                         !.active_tasks = Append(made.tm.active_tasks, made.task),
                         !.tasks_created = made.tm.tasks_created + 1]

\* TaskManager._spawn_if_needed
spawn_if_needed(m, now_ms) ==
    IF m.tasks_created >= m.total_tasks THEN m
    ELSE IF Len(m.active_tasks) >= m.difficulty.global_params.parallel_streams THEN m
    ELSE LET interval_ms == m.difficulty.global_params.event_rate_sec
         IN  IF now_ms < m.next_spawn_after_ms THEN m
             ELSE IF now_ms - m.last_spawn_ms < interval_ms THEN m
             ELSE LET stamped == [m EXCEPT !.last_spawn_ms = now_ms]
                      made == create_task(stamped, now_ms)
                  IN  [made.tm EXCEPT
                         !.active_tasks = Append(made.tm.active_tasks, made.task),
                         !.tasks_created = made.tm.tasks_created + 1]

\* the task object mutated in place inside the list
StoreTask(tasks, t) ==
    [i \in DOMAIN tasks |-> IF tasks[i].serial = t.serial THEN t ELSE tasks[i]]

\* list.remove(task): drops the first entry that is this object
RemoveTask(tasks, t) ==
    IF \E i \in DOMAIN tasks : tasks[i].serial = t.serial
    THEN LET k == CHOOSE i \in DOMAIN tasks :
                    /\ tasks[i].serial = t.serial
                    /\ \A j \in 1..(i - 1) : tasks[j].serial # t.serial
         IN  SubSeq(tasks, 1, k - 1) \o SubSeq(tasks, k + 1, Len(tasks))
    ELSE tasks

\* Mutant: a retirement does not push the cooldown.
Retire_no_cooldown(m, t, now_ms) ==
    [m EXCEPT
       !.active_tasks = RemoveTask(m.active_tasks, t),
       !.tasks_completed = m.tasks_completed + 1]

\* Mutant: a retired task is counted but stays in the list.
Retire_kept(m, t, now_ms) ==
    [m EXCEPT
       !.tasks_completed = m.tasks_completed + 1,
       !.next_spawn_after_ms = Max(m.next_spawn_after_ms, now_ms + m.inter_task_pause_ms)]

\* what retiring a task does to the scheduler's counters and cooldown
Retire(m, t, now_ms) ==
    [m EXCEPT
       !.active_tasks = RemoveTask(m.active_tasks, t),
       !.tasks_completed = m.tasks_completed + 1,
       !.next_spawn_after_ms = Max(m.next_spawn_after_ms, now_ms + m.inter_task_pause_ms)]

\* the loop of TaskManager.update over list(self.active_tasks)
RECURSIVE update_loop(_, _, _, _)
update_loop(acc, snapshot, i, now_ms) ==
    IF i > Len(snapshot) THEN acc
    ELSE LET t == Task_update(snapshot[i], now_ms)
             stored == [acc.tm EXCEPT !.active_tasks = StoreTask(acc.tm.active_tasks, t)]
         IN  IF is_complete(t)
             THEN update_loop([tm |-> Retire(stored, t, now_ms),
                               results |-> Append(acc.results, get_result(t)),
                               retired |-> Append(acc.retired, t.serial)],
                              snapshot, i + 1, now_ms)
             ELSE update_loop([acc EXCEPT !.tm = stored], snapshot, i + 1, now_ms)

\* the scheduler after the retirement loop of update, before the spawn step
update_retire(m, now_ms) ==
    update_loop([tm |-> m, results |-> <<>>, retired |-> <<>>], m.active_tasks, 1, now_ms)

\* Mutant: the spawn attempt comes before the deadline checks.
TM_update_spawn_first(m, now_ms) ==
    update_retire(spawn_if_needed(m, now_ms), now_ms)

\* TaskManager.update
TM_update(m, now_ms) ==
    LET swept == update_retire(m, now_ms)
    IN  [swept EXCEPT !.tm = spawn_if_needed(swept.tm, now_ms)]

\* Mutant: the focus is on the newest active task.
get_focused_task_newest(m) ==
    IF m.active_tasks = <<>> THEN None ELSE Some(m.active_tasks[Len(m.active_tasks)])

get_focused_task(m) == IF m.active_tasks = <<>> THEN None ELSE Some(m.active_tasks[1])

\* TaskManager.handle_event; results holds the TaskResult returned, if any
TM_handle_event(m, event, now_ms) ==
    LET focused == get_focused_task(m)
    IN  IF IsNone(focused) THEN [tm |-> m, results |-> <<>>, retired |-> <<>>]
        ELSE LET t == Task_handle_event(Val(focused), event, now_ms)
                 stored == [m EXCEPT !.active_tasks = StoreTask(m.active_tasks, t)]
             IN  IF is_complete(t)
                 THEN [tm |-> Retire(stored, t, now_ms),
                       results |-> <<get_result(t)>>,
                       retired |-> <<t.serial>>]
                 ELSE [tm |-> stored, results |-> <<>>, retired |-> <<>>]

is_done(m) == m.tasks_completed >= m.total_tasks

----------------------------------------------------------------------------
(* The driver: GameApp.run *)

Emit(retired, by) == [i \in DOMAIN retired |-> [serial |-> retired[i], by |-> by]]

\* for event in pygame.event.get(): result = handle_event(event, now_ms)
RECURSIVE frame_events(_, _, _, _)
frame_events(acc, events, i, now_ms) ==
    IF i > Len(events) THEN acc
    ELSE LET out == TM_handle_event(acc.tm, events[i], now_ms)
         IN  frame_events([tm |-> out.tm,
                           results |-> acc.results \o out.results,
                           emitted |-> acc.emitted \o Emit(out.retired, "handle_event")],
                          events, i + 1, now_ms)

\* Mutant: the frame runs update before it delivers the events.
run_frame_update_first(m, events, now_ms) ==
    LET ticked == TM_update(m, now_ms)
        handled == frame_events([tm |-> ticked.tm, results |-> <<>>, emitted |-> <<>>],
                                events, 1, now_ms)
    IN  [tm |-> handled.tm,
         results |-> ticked.results \o handled.results,
         emitted |-> Emit(ticked.retired, "update") \o handled.emitted]

\* one iteration of the main loop while the session is started: the frame's
\* events first, then update, every result going to _handle_result
run_frame(m, events, now_ms) ==
    LET handled == frame_events([tm |-> m, results |-> <<>>, emitted |-> <<>>],
                                events, 1, now_ms)
        ticked == TM_update(handled.tm, now_ms)
    IN  [tm |-> ticked.tm,
         results |-> handled.results \o ticked.results,
         emitted |-> handled.emitted \o Emit(ticked.retired, "update")]

EventSeqs == UNION {[1..k -> Events] : k \in 0..MaxFrameEvents}

Entropy == {0, 1}

\* seeds whose first task is a sequence memory, a rule switch and a code
\* comparison
Seeds == {1, 2, 3}
NoTask == None
NoApp == None

----------------------------------------------------------------------------
(* Spec: one scheduler driven by update and handle_event calls *)

Init ==
    \E d \in Difficulties, total \in 1..MaxTotal, pause \in Pauses,
       seed \in Seeds, e \in Entropy :
        /\ tm = TaskManager(d, total, pause, seed, e)
        /\ results = <<>>
        /\ now = 0
        /\ emitted = <<>>
        /\ tm2 = None
        /\ results2 = <<>>
        /\ task = NoTask
        /\ got = <<>>
        /\ delivered = <<>>
        /\ config = None
        /\ app = NoApp

\* what a call on the scheduler leaves behind
Driven(out, now_ms) ==
    /\ tm' = out.tm
    /\ results' = results \o out.results
    /\ emitted' = emitted \o out.emitted
    /\ now' = now_ms

UpdateOut(m, now_ms) ==
    LET out == TM_update(m, now_ms)
    IN  [tm |-> out.tm, results |-> out.results, emitted |-> Emit(out.retired, "update")]

HandleEventOut(m, event, now_ms) ==
    LET out == TM_handle_event(m, event, now_ms)
    IN  [tm |-> out.tm, results |-> out.results,
         emitted |-> Emit(out.retired, "handle_event")]

\* results = task_manager.update(now_ms)
Update(now_ms) ==
    /\ now_ms >= now
    /\ \E out \in {UpdateOut(tm, now_ms)} : Driven(out, now_ms)
    /\ UNCHANGED <<tm2, results2, task, got, delivered, app, config>>

\* result = task_manager.handle_event(event, now_ms)
HandleEvent(event, now_ms) ==
    /\ now_ms >= now
    /\ \E out \in {HandleEventOut(tm, event, now_ms)} : Driven(out, now_ms)
    /\ UNCHANGED <<tm2, results2, task, got, delivered, app, config>>

Next ==
    \/ \E n \in Times : Update(n)
    \/ \E ev \in Events, n \in Times : HandleEvent(ev, n)

Spec == Init /\ [][Next]_vars

----------------------------------------------------------------------------
(* SpecRun: the scheduler driven by the frames of the main loop *)

\* one frame of GameApp.run while the session is started; clock.tick(fps)
\* separates two frames, so the clock read by a frame is later than the last
RunFrame(events, now_ms) ==
    /\ now_ms > now
    /\ \E out \in {run_frame(tm, events, now_ms)} : Driven(out, now_ms)
    /\ delivered' = events
    /\ UNCHANGED <<tm2, results2, task, got, app, config>>

NextRun == \E events \in EventSeqs, n \in Times : RunFrame(events, n)

SpecRun == Init /\ [][NextRun]_vars

----------------------------------------------------------------------------
(* SpecMemory: the frames of the main loop with sequence memories that     *)
(* have no retention delay (game/settings.py) and the default one of       *)
(* 1200 ms (config/settings.py), and no pause between the tasks            *)

InitMemory ==
    \E d \in Difficulties, retention_delay_ms \in {0, 1200}, total \in 1..MaxTotal,
       seed \in Seeds :
        /\ tm = TaskManager([d EXCEPT !.memory.retention_delay_ms = retention_delay_ms],
                            total, 0, seed, 0)
        /\ results = <<>>
        /\ now = 0
        /\ emitted = <<>>
        /\ tm2 = None
        /\ results2 = <<>>
        /\ task = NoTask
        /\ got = <<>>
        /\ delivered = <<>>
        /\ config = None
        /\ app = NoApp

SpecMemory == InitMemory /\ [][NextRun]_vars

----------------------------------------------------------------------------
(* SpecReplay: two fresh schedulers built from the same arguments and      *)
(* driven by the same calls                                                *)

InitReplay ==
    \E d \in Difficulties, total \in 1..MaxTotal, pause \in Pauses,
       seed \in Seeds, e1 \in Entropy, e2 \in Entropy :
        /\ tm = TaskManager(d, total, pause, seed, e1)
        /\ tm2 = Some(TaskManager(d, total, pause, seed, e2))
        /\ results = <<>>
        /\ results2 = <<>>
        /\ now = 0
        /\ emitted = <<>>
        /\ task = NoTask
        /\ got = <<>>
        /\ delivered = <<>>
        /\ config = None
        /\ app = NoApp

ReplayUpdate(now_ms) ==
    /\ now_ms >= now
    /\ \E out \in {UpdateOut(tm, now_ms)} : Driven(out, now_ms)
    /\ \E out2 \in {UpdateOut(Val(tm2), now_ms)} :
          tm2' = Some(out2.tm) /\ results2' = results2 \o out2.results
    /\ UNCHANGED <<task, got, delivered, app, config>>

ReplayHandleEvent(event, now_ms) ==
    /\ now_ms >= now
    /\ \E out \in {HandleEventOut(tm, event, now_ms)} : Driven(out, now_ms)
    /\ \E out2 \in {HandleEventOut(Val(tm2), event, now_ms)} :
          tm2' = Some(out2.tm) /\ results2' = results2 \o out2.results
    /\ UNCHANGED <<task, got, delivered, app, config>>

NextReplay ==
    \/ \E n \in Times : ReplayUpdate(n)
    \/ \E ev \in Events, n \in Times : ReplayHandleEvent(ev, n)

SpecReplay == InitReplay /\ [][NextReplay]_vars

----------------------------------------------------------------------------
(* SpecTask: one task object driven directly through the Task contract     *)

InitTask ==
    \E d \in Difficulties, seed \in Seeds, t0 \in Times :
        LET made == create_task(TaskManager(d, 1, 0, seed, 0), t0)
        IN  /\ tm = made.tm
            /\ task = Some(made.task)
            /\ now = t0
            /\ got = <<>>
            /\ delivered = <<>>
            /\ config = None
            /\ app = NoApp
            /\ results = <<>>
            /\ emitted = <<>>
            /\ tm2 = None
            /\ results2 = <<>>

\* task.update(now_ms)
TaskUpdate(now_ms) ==
    /\ now_ms >= now
    /\ task' = Some(Task_update(Val(task), now_ms))
    /\ now' = now_ms
    /\ UNCHANGED <<tm, results, emitted, tm2, results2, got, delivered, app, config>>

\* task.handle_event(event, now_ms)
TaskHandleEvent(event, now_ms) ==
    /\ now_ms >= now
    /\ task' = Some(Task_handle_event(Val(task), event, now_ms))
    /\ now' = now_ms
    /\ UNCHANGED <<tm, results, emitted, tm2, results2, got, delivered, app, config>>

\* task.get_result()
TaskGetResult ==
    /\ Len(got) < MaxGets
    /\ got' = Append(got, [finished |-> is_complete(Val(task)),
                           result |-> get_result(Val(task))])
    /\ UNCHANGED <<tm, results, emitted, tm2, results2, task, now, delivered, app, config>>

NextTask ==
    \/ \E n \in Times : TaskUpdate(n)
    \/ \E ev \in Events, n \in Times : TaskHandleEvent(ev, n)
    \/ TaskGetResult

SpecTask == InitTask /\ [][NextTask]_vars

----------------------------------------------------------------------------
(* SpecTimeout: a session on one stream in which the participant never     *)
(* answers; every update advances the clock by one or two ticks, and the   *)
(* updates stop once the scheduler is done                                 *)

\* how far the clock moves between two updates, in ticks
Steps == {1, 2}

SetMax(S) == CHOOSE x \in S : \A y \in S : y <= x

SoloDifficulties == {d \in Difficulties : d.global_params.parallel_streams = 1}

\* the longest a task can stay active, and the longest a spawn can be held back
MaxSpanMs ==
    SetMax(UNION {{(limit * d.global_params.time_pressure) \div 100 :
                     limit \in {d.compare.time_limit_ms, d.memory.time_limit_ms,
                                d.switch.time_limit_ms}} :
                  d \in SoloDifficulties})
MaxWaitMs ==
    SetMax({d.global_params.event_rate_sec : d \in SoloDifficulties} \cup Pauses)

\* by this time every session of MaxTotal tasks has timed out completely
TimeoutHorizonMs ==
    (MaxTotal + 1) * (MaxWaitMs + MaxSpanMs + 2 * SetMax(Steps) * TickMs)

InitTimeout ==
    \E d \in SoloDifficulties, total \in 1..MaxTotal, pause \in Pauses,
       seed \in Seeds :
        /\ tm = TaskManager(d, total, pause, seed, 0)
        /\ results = <<>>
        /\ now = 0
        /\ emitted = <<>>
        /\ tm2 = None
        /\ results2 = <<>>
        /\ task = NoTask
        /\ got = <<>>
        /\ delivered = <<>>
        /\ config = None
        /\ app = NoApp

\* update(now_ms) strictly later than the previous one, and no response
TickNoResponse(step) ==
    /\ ~is_done(tm)
    /\ now + step * TickMs <= TimeoutHorizonMs
    /\ \E out \in {UpdateOut(tm, now + step * TickMs)} : Driven(out, now + step * TickMs)
    /\ UNCHANGED <<tm2, results2, task, got, delivered, app, config>>

Ticking == \E step \in Steps : TickNoResponse(step)

NextTimeout == Ticking

SpecTimeout == InitTimeout /\ [][NextTimeout]_vars /\ WF_vars(Ticking)

----------------------------------------------------------------------------
(* GameApp: level, tempo and the adaptation step at the end of a batch *)

\* LevelConfig as GameApp reads it; accuracies are in thousandths, and
\* max_level, check_every, window_size and baseline_required_correct are
\* scaled to the batch sizes of the model (check_every < window_size, both
\* at most the batch of the longest session)
LevelConfig ==
    [min_level |-> 1, max_level |-> 3, start_level |-> 1,
     check_every |-> 1, window_size |-> 2,
     up_accuracy |-> 850, down_accuracy |-> 650, up_rt_ms |-> 1000,
     down_rt_ms |-> 1500, baseline_required_correct |-> 2]

\* session.total_tasks is at most this
MaxSessionTasks == 2

Modes == {"baseline", "ppo"}

\* the fields of a TaskResult the adaptation reads
ResultOf(correct, is_timeout, rt_ms) ==
    [correct |-> correct, is_timeout |-> is_timeout, rt_ms |-> Some(rt_ms)]

\* a fast and a slow correct answer, a fast wrong answer, a timeout
ResultKinds ==
    { ResultOf(TRUE, FALSE, 600), ResultOf(TRUE, FALSE, 1600),
      ResultOf(FALSE, FALSE, 600), ResultOf(FALSE, TRUE, 1600) }

IsCorrect(r) == r.correct
IsAnswered(r) == ~r.is_timeout
HasRt(r) == ~IsNone(r.rt_ms)

RECURSIVE SumRt(_)
SumRt(rs) == IF rs = <<>> THEN 0 ELSE Val(Head(rs).rt_ms) + SumRt(Tail(rs))

\* a quotient of two integers, compared without rounding: f >= c / scale ...
Frac(num, den) == [num |-> num, den |-> den]
FracGe(f, c, scale) == f.num * scale >= c * f.den
FracLe(f, c, scale) == f.num * scale <= c * f.den
FracLt(f, c, scale) == f.num * scale < c * f.den

Clamp(lo, hi, x) == Max(lo, Min(hi, x))

\* BaselineAdapter.update: the new BaselineState, which is also what it returns
BaselineAdapter_update(state, accuracy, mean_rt) ==
    IF /\ FracGe(accuracy, LevelConfig.up_accuracy, 1000)
       /\ FracLe(mean_rt, LevelConfig.up_rt_ms, 1)
    THEN [level |-> Min(LevelConfig.max_level, state.level + 1),
          tempo_offset |-> Min(2, state.tempo_offset + 1)]
    ELSE IF \/ FracLe(accuracy, LevelConfig.down_accuracy, 1000)
            \/ FracGe(mean_rt, LevelConfig.down_rt_ms, 1)
         THEN [level |-> Max(LevelConfig.min_level, state.level - 1),
               tempo_offset |-> Max(-2, state.tempo_offset - 1)]
         ELSE state

\* RLAgent(model_path): nothing loaded, three actions
RLAgent == [model |-> None, action_dim |-> 3, available |-> TRUE]

\* What the policy's surroundings do during one adaptation step: whether the
\* model file exists, whether torch and training.model import, the
\* action_dim of the .meta.json (None: no usable metadata), whether
\* load_state_dict succeeds, whether the forward pass throws, and the argmax
\* of the logits.
PolicyEnv(exists, torch, module, meta_dim, weights_ok, throws, action_id) ==
    [exists |-> exists, torch |-> torch, module |-> module, meta_dim |-> meta_dim,
     weights_ok |-> weights_ok, throws |-> throws, action_id |-> action_id]

MetaDims == {None, Some(9), Some(5)}

PolicyEnvs ==
    {PolicyEnv(FALSE, TRUE, TRUE, None, TRUE, FALSE, 1)}
      \cup {PolicyEnv(TRUE, FALSE, TRUE, None, TRUE, FALSE, 1)}
      \cup {PolicyEnv(TRUE, TRUE, FALSE, None, TRUE, FALSE, 1)}
      \cup {PolicyEnv(TRUE, TRUE, TRUE, m, FALSE, FALSE, 1) : m \in MetaDims}
      \cup {PolicyEnv(TRUE, TRUE, TRUE, m, TRUE, TRUE, 1) : m \in MetaDims}
      \cup {PolicyEnv(TRUE, TRUE, TRUE, m, TRUE, FALSE, a) : m \in MetaDims, a \in 0..2}
      \cup {PolicyEnv(TRUE, TRUE, TRUE, Some(9), TRUE, FALSE, a) : a \in 3..8}

\* RLAgent.load; raised tells whether it left by an exception. The model
\* object is assigned before load_state_dict reads the file.
RLAgent_load(rl, env) ==
    IF ~(env.torch /\ env.module)
    THEN [rl |-> [rl EXCEPT !.available = FALSE], raised |-> TRUE]
    ELSE LET action_dim == IF ~IsNone(env.meta_dim) /\ Val(env.meta_dim) \in {3, 9}
                           THEN Val(env.meta_dim) ELSE rl.action_dim
             built == [rl EXCEPT !.action_dim = action_dim, !.model = Some("untrained")]
         IN  IF env.weights_ok
             THEN [rl |-> [built EXCEPT !.model = Some("trained"), !.available = TRUE],
                   raised |-> FALSE]
             ELSE [rl |-> built, raised |-> TRUE]

\* Mutant: the legacy action space is decoded like the three-action one,
\* without the clamp.
DecodeTempo_plain(action_dim, action_id) == action_id - 1

\* the tempo delta RLAgent.act decodes from an action id
DecodeTempo(action_dim, action_id) ==
    IF action_dim = 9 THEN (action_id % 3) - 1
    ELSE Clamp(-1, 1, action_id - 1)

\* RLAgent.act: the agent afterwards and (action_id, delta_level, delta_tempo)
RLAgent_act(rl, env) ==
    LET neutral(agent) == [rl |-> [agent EXCEPT !.available = FALSE],
                           action_id |-> 1, delta_level |-> 0, delta_tempo |-> 0]
    IN  IF ~env.torch THEN neutral(rl)
        ELSE LET loaded == IF IsNone(rl.model) THEN RLAgent_load(rl, env)
                           ELSE [rl |-> rl, raised |-> FALSE]
             IN  IF loaded.raised \/ env.throws THEN neutral(loaded.rl)
                 ELSE [rl |-> [loaded.rl EXCEPT !.available = TRUE],
                       action_id |-> env.action_id,
                       delta_level |-> 0,
                       delta_tempo |-> DecodeTempo(loaded.rl.action_dim, env.action_id)]

\* the logits have action_dim entries
ArgmaxInRange(rl, env) == env.action_id < RLAgent_act(rl, env).rl.action_dim

\* GameApp.__init__: the fields of a fresh application. Of the adapter's state
\* only tempo_offset is kept: its level is set to the application's level
\* after every update and read by nothing but the update before that.
GameApp(total_tasks, adaptation_mode) ==
    [total_tasks |-> total_tasks,
     current_level |-> LevelConfig.start_level,
     tempo_offset |-> 0,
     adapter |-> [tempo_offset |-> 0],
     rl |-> RLAgent,
     selected_mode |-> adaptation_mode,
     batch |-> <<>>,
     tasks_completed |-> 0,
     started |-> FALSE,
     awaiting_run_setup |-> TRUE,
     pause_between_levels |-> TRUE,
     last_feedback_text |-> "",
     adapt_record |-> None]

\* the adaptation record as written to the log: what was decided, by which
\* mode, and the level and tempo the step left (state and reward are
\* functions of the window)
AdaptationRecord(action_id, delta_level, delta_tempo, level, tempo_offset, mode) ==
    [action_id |-> action_id, delta_level |-> delta_level, delta_tempo |-> delta_tempo,
     level |-> level, tempo_offset |-> tempo_offset,
     mode |-> mode, action_space |-> "tempo3"]

\* the window of _maybe_adapt and its two statistics
WindowOf(batch) ==
    LET window_size == Min(Len(batch), LevelConfig.window_size)
    IN  SubSeq(batch, Len(batch) - window_size + 1, Len(batch))

Accuracy(window) == Frac(Len(SelectSeq(window, IsCorrect)), Len(window))

MeanRt(window) ==
    LET rts == SelectSeq(window, HasRt)
    IN  IF rts = <<>> THEN Frac(0, 1) ELSE Frac(SumRt(rts), Len(rts))

\* GameApp._maybe_adapt(batch) with batch = the results of the current batch
maybe_adapt(a, env) ==
    IF a.batch = <<>> THEN a
    ELSE LET window == WindowOf(a.batch)
             accuracy == Accuracy(window)
             mean_rt == MeanRt(window)
             prev_level == a.current_level
             prev_tempo == a.tempo_offset
         IN  IF a.selected_mode = "ppo" /\ env.exists
             THEN LET acted == RLAgent_act(a.rl, env)
                      new_tempo == Clamp(-2, 2, prev_tempo + acted.delta_tempo)
                  IN  [a EXCEPT
                         !.rl = acted.rl,
                         !.current_level = prev_level,
                         !.tempo_offset = new_tempo,
                         !.adapt_record =
                            Some(AdaptationRecord(acted.delta_tempo + 1, 0, acted.delta_tempo,
                                                  prev_level, new_tempo, "ppo"))]
             ELSE LET updated == BaselineAdapter_update(
                                 [level |-> prev_level,
                                  tempo_offset |-> a.adapter.tempo_offset],
                                 accuracy, mean_rt)
                      new_tempo == updated.tempo_offset
                      delta_tempo == Clamp(-1, 1, new_tempo - prev_tempo)
                  IN  [a EXCEPT
                         !.adapter = [tempo_offset |-> new_tempo],
                         !.current_level = prev_level,
                         !.tempo_offset = new_tempo,
                         !.adapt_record =
                            Some(AdaptationRecord(delta_tempo + 1, 0, delta_tempo,
                                                  prev_level, new_tempo, "baseline"))]

\* the level rule at the end of a batch: whether the batch earns a level up
\* and whether it costs a level
LevelUp(mode, total_tasks, answered, correct) ==
    IF mode = "baseline"
    THEN correct >= Min(total_tasks, LevelConfig.baseline_required_correct)
    ELSE /\ FracGe(Frac(answered, Max(1, total_tasks)), 750, 1000)
         /\ FracGe(Frac(correct, answered), 800, 1000)

\* Mutant: the heuristic mode loses a level on a weak batch like the policy mode.
LevelDown_any_mode(mode, total_tasks, answered, correct) ==
    \/ FracLt(Frac(answered, Max(1, total_tasks)), 500, 1000)
    \/ FracLt(Frac(correct, answered), 550, 1000)

LevelDown(mode, total_tasks, answered, correct) ==
    IF mode = "baseline" THEN FALSE
    ELSE \/ FracLt(Frac(answered, Max(1, total_tasks)), 500, 1000)
         \/ FracLt(Frac(correct, answered), 550, 1000)

\* the new TaskManager and the new batch that close _start_next_batch
NextBatch(a) == [a EXCEPT !.batch = <<>>, !.tasks_completed = 0]

\* Mutant: a level up below the top level also raises the tempo.
Progress_both(a, answered, correct) ==
    IF LevelUp(a.selected_mode, a.total_tasks, answered, correct)
    THEN IF a.current_level < LevelConfig.max_level
         THEN [a EXCEPT !.current_level = a.current_level + 1,
                        !.tempo_offset = IF a.selected_mode # "baseline"
                                         THEN Min(2, a.tempo_offset + 1)
                                         ELSE a.tempo_offset]
         ELSE IF a.selected_mode # "baseline"
              THEN [a EXCEPT !.tempo_offset = Min(2, a.tempo_offset + 1)]
              ELSE a
    ELSE IF LevelDown(a.selected_mode, a.total_tasks, answered, correct)
         THEN [a EXCEPT !.current_level = Max(LevelConfig.min_level, a.current_level - 1)]
         ELSE a

\* Mutant: a level up is also given at the top level.
Progress_unclamped(a, answered, correct) ==
    IF LevelUp(a.selected_mode, a.total_tasks, answered, correct)
    THEN [a EXCEPT !.current_level = a.current_level + 1]
    ELSE IF LevelDown(a.selected_mode, a.total_tasks, answered, correct)
         THEN [a EXCEPT !.current_level = Max(LevelConfig.min_level, a.current_level - 1)]
         ELSE a

\* the level step of _start_next_batch, after the adaptation, with the
\* message it shows (the messages are named by their wording, without the
\* numbers they carry)
Progress(a, answered, correct) ==
    IF LevelUp(a.selected_mode, a.total_tasks, answered, correct)
    THEN IF a.current_level < LevelConfig.max_level
         THEN [a EXCEPT !.current_level = a.current_level + 1,
                        !.last_feedback_text = "new level"]
         ELSE IF a.selected_mode # "baseline"
              THEN [a EXCEPT !.tempo_offset = Min(2, a.tempo_offset + 1),
                             !.last_feedback_text = "max level, tempo raised"]
              ELSE [a EXCEPT !.last_feedback_text = "max level"]
    ELSE IF LevelDown(a.selected_mode, a.total_tasks, answered, correct)
         THEN [a EXCEPT !.current_level = Max(LevelConfig.min_level, a.current_level - 1),
                        !.last_feedback_text = "level lowered"]
         ELSE [a EXCEPT !.last_feedback_text = "level unchanged"]

\* Mutant: a batch without answers is adapted and progressed like any other.
start_next_batch_no_idle_case(a, env) ==
    IF a.batch = <<>> THEN a
    ELSE LET answered == Len(SelectSeq(a.batch, IsAnswered))
             correct == Len(SelectSeq(a.batch, IsCorrect))
             adapted == maybe_adapt(a, env)
             progressed == Progress(adapted, Max(1, answered), correct)
         IN  NextBatch(progressed)

\* Mutant: every batch end pauses when pause_between_levels is on.
start_next_batch_pause_any(a, env) ==
    IF a.batch = <<>> THEN a
    ELSE LET answered == Len(SelectSeq(a.batch, IsAnswered))
             correct == Len(SelectSeq(a.batch, IsCorrect))
         IN  IF answered = 0
             THEN [NextBatch(a) EXCEPT !.started = FALSE,
                                       !.last_feedback_text = "no answers"]
             ELSE [NextBatch(Progress(maybe_adapt(a, env), answered, correct)) EXCEPT
                     !.started = ~a.pause_between_levels]

\* GameApp._start_next_batch
start_next_batch(a, env) ==
    IF a.batch = <<>> THEN a
    ELSE LET answered == Len(SelectSeq(a.batch, IsAnswered))
             correct == Len(SelectSeq(a.batch, IsCorrect))
         IN  IF answered = 0
             THEN [NextBatch(a) EXCEPT !.started = FALSE,
                                       !.last_feedback_text = "no answers"]
             ELSE LET adapted == maybe_adapt(a, env)
                      progressed == Progress(adapted, answered, correct)
                      did_level_up == progressed.current_level > adapted.current_level
                  IN  [NextBatch(progressed) EXCEPT
                         !.started = IF a.pause_between_levels /\ did_level_up
                                     THEN FALSE ELSE a.started]

\* GameApp._begin_user_run(start_level)
begin_user_run(a, start_level) ==
    [a EXCEPT
       !.current_level = Clamp(LevelConfig.min_level, LevelConfig.max_level, start_level),
       !.tempo_offset = 0,
       !.last_feedback_text = "",
       !.batch = <<>>,
       !.tasks_completed = 0,
       !.awaiting_run_setup = FALSE,
       !.started = TRUE]

\* a saved run as read back from pending_runs.json; batch_tasks_done may be
\* missing
Snapshot(level, tempo, mode, pause, saved_results, start, done) ==
    [current_level |-> level, tempo_offset |-> tempo,
     selected_mode |-> mode, pause_between_levels |-> pause,
     results |-> saved_results, batch_result_start |-> start,
     batch_tasks_done |-> done]

\* TaskResult(**item) succeeds: the entry is a dict with the fields of a
\* TaskResult
IsTaskResult(item) == {"correct", "is_timeout", "rt_ms"} \subseteq DOMAIN item

\* Mutant: the saved tempo is taken as it is.
restore_saved_run_unclamped(a, snapshot) ==
    LET restored_results == SelectSeq(snapshot.results, IsTaskResult)
        kept == Min(Max(0, snapshot.batch_result_start), Len(restored_results))
        done == IF IsNone(snapshot.batch_tasks_done)
                THEN Len(restored_results) - kept
                ELSE Val(snapshot.batch_tasks_done)
    IN  [a EXCEPT
           !.current_level = Clamp(LevelConfig.min_level, LevelConfig.max_level,
                                   snapshot.current_level),
           !.tempo_offset = snapshot.tempo_offset,
           !.selected_mode = snapshot.selected_mode,
           !.pause_between_levels = snapshot.pause_between_levels,
           !.batch = SubSeq(restored_results, kept + 1, Len(restored_results)),
           !.tasks_completed = Min(Max(0, done), a.total_tasks),
           !.started = FALSE,
           !.last_feedback_text = "session restored",
           !.awaiting_run_setup = FALSE]

\* GameApp._restore_saved_run when a snapshot is found
restore_saved_run(a, snapshot) ==
    LET restored_results == SelectSeq(snapshot.results, IsTaskResult)
        kept == Min(Max(0, snapshot.batch_result_start), Len(restored_results))
        done == IF IsNone(snapshot.batch_tasks_done)
                THEN Len(restored_results) - kept
                ELSE Val(snapshot.batch_tasks_done)
    IN  [a EXCEPT
           !.current_level = Clamp(LevelConfig.min_level, LevelConfig.max_level,
                                   snapshot.current_level),
           !.tempo_offset = Clamp(-2, 2, snapshot.tempo_offset),
           !.selected_mode = snapshot.selected_mode,
           !.pause_between_levels = snapshot.pause_between_levels,
           !.batch = SubSeq(restored_results, kept + 1, Len(restored_results)),
           !.tasks_completed = Min(Max(0, done), a.total_tasks),
           !.started = FALSE,
           !.last_feedback_text = "session restored",
           !.awaiting_run_setup = FALSE]

\* GameApp._handle_result for a result of the current TaskManager, which
\* counted the task as completed
handle_result(a, r) ==
    [a EXCEPT !.batch = Append(a.batch, r),
              !.tasks_completed = a.tasks_completed + 1,
              !.last_feedback_text = IF r.is_timeout THEN "too late"
                                     ELSE IF r.correct THEN "answer accepted"
                                     ELSE "error"]

StartLevels == {1, 2, LevelConfig.max_level + 2}

\* saved runs: what _save_active_run_snapshot writes (batch_tasks_done counts
\* the saved results of the batch), with levels and tempos also outside the
\* ranges, as a file from elsewhere may hold
Snapshots ==
    {Snapshot(level, tempo, mode, TRUE, saved[1], 0, saved[2]) :
        level \in {0, LevelConfig.max_level + 1}, tempo \in {-3, 2},
        mode \in Modes,
        saved \in {<<(<<>>), None>>, <<(<<ResultOf(TRUE, FALSE, 600)>>), Some(1)>>}}

----------------------------------------------------------------------------
(* SpecApp: the application between the menu, a running batch and the end  *)
(* of a batch                                                              *)

InitApp ==
    \E mode \in Modes :
        /\ app = Some(GameApp(MaxSessionTasks, mode))
        /\ tm = None
        /\ results = <<>>
        /\ now = 0
        /\ emitted = <<>>
        /\ tm2 = None
        /\ results2 = <<>>
        /\ task = NoTask
        /\ got = <<>>
        /\ delivered = <<>>
        /\ config = None

\* adapt_record holds what the step appended to the adaptations log
NoWrite(a) == [a EXCEPT !.adapt_record = None]

AppStep(a) ==
    /\ app' = Some(a)
    /\ UNCHANGED <<tm, results, now, emitted, tm2, results2, task, got, delivered, config>>

\* Start / restart from the menu or the pause menu
BeginUserRun(start_level) ==
    /\ ~Val(app).started
    /\ AppStep(NoWrite(begin_user_run(Val(app), start_level)))

\* Start / continue from the menu when a saved run is found
RestoreSavedRun(snapshot) ==
    /\ ~Val(app).started
    /\ Val(app).awaiting_run_setup
    /\ AppStep(NoWrite(restore_saved_run(Val(app), snapshot)))

\* Start / continue of a run that is set up
Resume ==
    /\ ~Val(app).started
    /\ ~Val(app).awaiting_run_setup
    /\ AppStep([NoWrite(Val(app)) EXCEPT !.started = TRUE])

\* Escape or the menu button during a run
PauseRun ==
    /\ Val(app).started
    /\ AppStep([NoWrite(Val(app)) EXCEPT !.started = FALSE])

\* logout and the next login
LogoutUser ==
    /\ ~Val(app).started
    /\ ~Val(app).awaiting_run_setup
    /\ AppStep([NoWrite(Val(app)) EXCEPT !.awaiting_run_setup = TRUE])

\* the mode key or button in the menu
ToggleMode(model_exists) ==
    /\ ~Val(app).started
    /\ AppStep([NoWrite(Val(app)) EXCEPT
                  !.selected_mode = IF Val(app).selected_mode = "baseline"
                                    THEN (IF model_exists THEN "ppo" ELSE "baseline")
                                    ELSE "baseline"])

\* the level transition key or button in the menu
TogglePause ==
    /\ ~Val(app).started
    /\ AppStep([NoWrite(Val(app)) EXCEPT
                  !.pause_between_levels = ~Val(app).pause_between_levels])

\* _handle_result with an adaptation step of its own, every check_every
\* results once window_size results are there
HandleResult_check_every(r) ==
    /\ Val(app).started
    /\ Val(app).tasks_completed < Val(app).total_tasks
    /\ LET handled == handle_result(NoWrite(Val(app)), r)
           due == /\ Len(handled.batch) >= LevelConfig.window_size
                  /\ (Len(handled.batch) - LevelConfig.window_size) % LevelConfig.check_every = 0
       IN  AppStep(IF due THEN maybe_adapt(handled, CHOOSE env \in PolicyEnvs : TRUE)
                   ELSE handled)

\* a result of the running batch reaches _handle_result
HandleResult(r) ==
    /\ Val(app).started
    /\ Val(app).tasks_completed < Val(app).total_tasks
    /\ AppStep(NoWrite(handle_result(Val(app), r)))

\* the frame that finds task_manager.is_done()
BatchEnd(env) ==
    /\ Val(app).started
    /\ Val(app).tasks_completed >= Val(app).total_tasks
    /\ ArgmaxInRange(Val(app).rl, env)
    /\ AppStep(start_next_batch(NoWrite(Val(app)), env))

NextApp ==
    \/ \E level \in StartLevels : BeginUserRun(level)
    \/ \E snapshot \in Snapshots : RestoreSavedRun(snapshot)
    \/ Resume
    \/ PauseRun
    \/ LogoutUser
    \/ \E model_exists \in BOOLEAN : ToggleMode(model_exists)
    \/ TogglePause
    \/ \E r \in ResultKinds : HandleResult(r)
    \/ \E env \in PolicyEnvs : BatchEnd(env)

SpecApp == InitApp /\ [][NextApp]_vars

----------------------------------------------------------------------------
(* SpecPolicy: sessions configured for the policy mode, left in that mode, *)
(* with every behaviour of the policy's surroundings                       *)

InitPolicy ==
    /\ app = Some(GameApp(MaxSessionTasks, "ppo"))
    /\ tm = None
    /\ results = <<>>
    /\ now = 0
    /\ emitted = <<>>
    /\ tm2 = None
    /\ results2 = <<>>
    /\ task = NoTask
    /\ got = <<>>
    /\ delivered = <<>>
    /\ config = None

NextPolicy ==
    \/ \E level \in StartLevels : BeginUserRun(level)
    \/ Resume
    \/ PauseRun
    \/ \E r \in ResultKinds : HandleResult(r)
    \/ \E env \in PolicyEnvs : BatchEnd(env)

SpecPolicy == InitPolicy /\ [][NextPolicy]_vars

\* sessions of the heuristic mode whose batch is longer than the rolling
\* window, as in SessionConfig (total_tasks 120) and LevelConfig
\* (window_size 20, check_every 10)
InitCadence ==
    /\ app = Some(GameApp(MaxSessionTasks + 1, "baseline"))
    /\ tm = None
    /\ results = <<>>
    /\ now = 0
    /\ emitted = <<>>
    /\ tm2 = None
    /\ results2 = <<>>
    /\ task = NoTask
    /\ got = <<>>
    /\ delivered = <<>>
    /\ config = None

NextCadence ==
    \/ \E level \in StartLevels : BeginUserRun(level)
    \/ Resume
    \/ PauseRun
    \/ TogglePause
    \/ \E r \in ResultKinds : HandleResult(r)
    \/ \E env \in PolicyEnvs : BatchEnd(env)

SpecCadence == InitCadence /\ [][NextCadence]_vars

----------------------------------------------------------------------------
(* SpecSession: GameApp with the TaskManager it owns. The scheduler is     *)
(* built with a scaled difficulty of Difficulties, chosen at construction, *)
(* in place of apply_tempo(apply_level(...)); `results` is GameApp.results *)
(* of the session.                                                         *)

\* saved runs with out-of-range level and tempo and with an entry that
\* TaskResult(**item) cannot rebuild (one that is not a dict, or a dict
\* without the fields); batch_tasks_done is what was saved, or missing
SessionSnapshots ==
    {Snapshot(bad[1], bad[2], "baseline", TRUE, saved, 0, done) :
        bad \in {<<0, 3>>, <<LevelConfig.max_level + 1, -3>>},
        saved \in {<<>>} \cup {<<junk, ResultOf(TRUE, FALSE, 600)>> :
                                  junk \in {[not_a_dict |-> TRUE], [correct |-> TRUE]}},
        done \in {None, Some(2), Some(MaxSessionTasks + 2)}}

\* the TaskManager a new batch or a new session gets
NewTaskManager(seed) ==
    TaskManager(tm.difficulty, tm.total_tasks, tm.inter_task_pause_ms, seed, 0)

\* Mutant: the restored scheduler starts its counters at zero.
restore_task_manager_from_zero(a, seed) == NewTaskManager(seed)

\* Mutant: the restored scheduler counts the saved tasks as completed only.
restore_task_manager_completed_only(a, seed) ==
    [NewTaskManager(seed) EXCEPT !.tasks_completed = a.tasks_completed]

\* _restore_saved_run: the scheduler of the restored run, `a` the restored
\* application
restore_task_manager(a, seed) ==
    [NewTaskManager(seed) EXCEPT !.tasks_completed = a.tasks_completed,
                                 !.tasks_created = a.tasks_completed]

\* the two-stream configuration of Difficulties with the rule_switch_rate
\* apply_level gives at level 3 (0.25 + 0.03 * 2)
SessionDifficulties ==
    { [d EXCEPT !.switch.rule_switch_rate = 310] :
        d \in {d \in Difficulties : d.global_params.parallel_streams = 2} }

\* GameApp.__init__: the first TaskManager has seed 1; no pause between
\* tasks
InitSession ==
    \E d \in SessionDifficulties :
        /\ app = Some(GameApp(MaxSessionTasks, "baseline"))
        /\ tm = TaskManager(d, MaxSessionTasks, 0, 1, 0)
        /\ results = <<>>
        /\ now = 0
        /\ emitted = <<>>
        /\ tm2 = None
        /\ results2 = <<>>
        /\ task = NoTask
        /\ got = <<>>
        /\ delivered = <<>>
        /\ config = None

\* Start / restart: _begin_user_run; the seed comes from the wall clock
SessionBegin(start_level, seed) ==
    /\ ~Val(app).started
    /\ app' = Some(NoWrite(begin_user_run(Val(app), start_level)))
    /\ tm' = NewTaskManager(seed)
    /\ results' = <<>>
    /\ UNCHANGED <<now, emitted, tm2, results2, task, got, delivered, config>>

\* Start / continue with a saved run: _restore_saved_run
SessionRestore(snapshot, seed) ==
    /\ ~Val(app).started
    /\ Val(app).awaiting_run_setup
    /\ LET restored == NoWrite(restore_saved_run(Val(app), snapshot))
       IN  /\ app' = Some(restored)
           /\ tm' = restore_task_manager(restored, seed)
    /\ results' = SelectSeq(snapshot.results, IsTaskResult)
    /\ UNCHANGED <<now, emitted, tm2, results2, task, got, delivered, config>>

RECURSIVE handle_results(_, _)
handle_results(a, rs) ==
    IF rs = <<>> THEN a ELSE handle_results(handle_result(a, Head(rs)), Tail(rs))

\* one frame of GameApp.run while the session is started: events, update,
\* _handle_result for every result, and _start_next_batch with a new
\* TaskManager when the scheduler is done
SessionFrame(events, now_ms) ==
    /\ Val(app).started
    /\ now_ms > now
    /\ LET out == run_frame(tm, events, now_ms)
           handled == handle_results(NoWrite(Val(app)), out.results)
           all_results == results \o out.results
       IN  /\ results' = all_results
           /\ IF is_done(out.tm) /\ handled.batch # <<>>
              THEN /\ app' = Some(start_next_batch(handled, CHOOSE env \in PolicyEnvs : TRUE))
                   /\ tm' = NewTaskManager(out.tm.tasks_created + Len(all_results) + 1)
              ELSE /\ app' = Some(handled)
                   /\ tm' = out.tm
    /\ now' = now_ms
    /\ UNCHANGED <<emitted, tm2, results2, task, got, delivered, config>>

\* Mutant: the frame hands its events to the scheduler and runs update
\* whether the session is started or not.
idle_frame_running(m, events, now_ms) == run_frame(m, events, now_ms)

\* Mutant: a frame of the pause moves the deadlines of the active tasks by
\* the time that passed.
idle_frame_suspending(m, events, now_ms) ==
    [tm |-> [m EXCEPT !.active_tasks =
                        [i \in DOMAIN @ |-> [@[i] EXCEPT !.deadline_ms = @ + (now_ms - now)]]],
     results |-> <<>>, emitted |-> <<>>]

\* one iteration of the main loop while the session is not started: the
\* events go to the menu, and neither handle_event nor update is called
idle_frame(m, events, now_ms) == [tm |-> m, results |-> <<>>, emitted |-> <<>>]

\* one frame of GameApp.run while the session is paused or not started, with
\* events that are no key or button of the menu
SessionIdleFrame(events, now_ms) ==
    /\ ~Val(app).started
    /\ now_ms > now
    /\ LET out == idle_frame(tm, events, now_ms)
       IN  /\ tm' = out.tm
           /\ results' = results \o out.results
           /\ app' = Some(handle_results(NoWrite(Val(app)), out.results))
    /\ now' = now_ms
    /\ UNCHANGED <<emitted, tm2, results2, task, got, delivered, config>>

NextSession ==
    \/ \E level \in {1, LevelConfig.max_level}, seed \in Seeds : SessionBegin(level, seed)
    \/ \E snapshot \in SessionSnapshots, seed \in Seeds : SessionRestore(snapshot, seed)
    \/ Resume
    \/ PauseRun
    \/ \E events \in EventSeqs, n \in Times : SessionFrame(events, n)
    \/ \E events \in EventSeqs, n \in Times : SessionIdleFrame(events, n)

SpecSession == InitSession /\ [][NextSession]_vars

----------------------------------------------------------------------------
(* A scheduler built from a DifficultyConfig whose time limits are not     *)
(* positive: the dataclasses of config/settings.py have no __post_init__   *)
(* and TaskManager.__init__ stores what it is given.                       *)

\* DifficultyConfig values with a zero or negative time limit in every task
MalformedDifficulties ==
    { [d EXCEPT !.compare.time_limit_ms = limit,
                !.memory.time_limit_ms = limit,
                !.switch.time_limit_ms = limit] :
        d \in Difficulties, limit \in {0, -TickMs} }

InitMalformed ==
    \E d \in MalformedDifficulties, total \in 1..MaxTotal, pause \in Pauses,
       seed \in Seeds, e \in Entropy :
        /\ tm = TaskManager(d, total, pause, seed, e)
        /\ results = <<>>
        /\ now = 0
        /\ emitted = <<>>
        /\ tm2 = None
        /\ results2 = <<>>
        /\ task = NoTask
        /\ got = <<>>
        /\ delivered = <<>>
        /\ config = None
        /\ app = NoApp

SpecMalformed == InitMalformed /\ [][Next]_vars

----------------------------------------------------------------------------
(* Level and tempo: adaptation/levels.py and game/adaptation/levels.py.    *)
(* In this section time_pressure and event_rate_sec are in units of 1e-5,  *)
(* so that every product of the two functions stays an integer; rates are  *)
(* in thousandths and time limits in milliseconds as everywhere.           *)

\* LevelConfig.max_level as configured
MaxLevel == 10

\* The products x * num / den of this section's inputs whose double is just
\* below the integer the decimal factors give (0.65 is computed as
\* 0.6499999999999999, 0.93 as 0.9299999999999999, 1.16 * x rounds down),
\* so that int() returns one less than the exact quotient.
FloatShort ==
    { <<1300, 65, 100>>, <<1300, 70, 100>>, <<1425, 116, 100>>, <<1500, 65, 100>>,
      <<1500, 116, 100>>, <<1600, 116, 100>>, <<1625, 116, 100>>, <<1700, 116, 100>>,
      <<2000, 65, 100>>, <<2000, 93000, 100000>>, <<2850, 116, 100>>, <<3000, 65, 100>>,
      <<3000, 116, 100>>, <<3150, 116, 100>>, <<3200, 65, 100>>, <<3200, 116, 100>>,
      <<4200, 65, 100>>, <<4200, 93000, 100000>> }

\* int(x * factor) with factor = num / den, as the doubles give it
IntTimes(x, num, den) ==
    (x * num) \div den - (IF <<x, num, den>> \in FloatShort THEN 1 ELSE 0)

\* DifficultyConfig() of config/settings.py with its default time limits and
\* with time limits near the floors
BaseDifficulties ==
    { [global_params |-> GlobalDifficulty(400000, 1, 140000, <<400, 300, 300>>),
       compare |-> [code_len |-> 4, similarity_rate |-> 350, time_limit_ms |-> c],
       memory |-> [seq_len |-> 4, retention_delay_ms |-> 1200, time_limit_ms |-> m],
       switch |-> [rule_switch_rate |-> 250, stimulus_rate_sec |-> 2000,
                   rule_complexity |-> 2, time_limit_ms |-> s]] :
        c \in {3200, 1300}, m \in {4200, 1500}, s \in {3200, 2000} }

\* DifficultyConfig of game/settings.py: the same with parity and radar
GameDifficulty(base) ==
    [global_params |-> [base.global_params EXCEPT !.task_mix = <<240, 200, 200, 180, 180>>],
     compare |-> base.compare,
     memory |-> [base.memory EXCEPT !.retention_delay_ms = 0],
     switch |-> base.switch,
     parity |-> [min_value |-> 10, max_value |-> 99, question_complexity |-> 1,
                 time_limit_ms |-> 3000],
     radar |-> [signal_len |-> 5, threat_rate |-> 350, target_pool_size |-> 1,
                time_limit_ms |-> 3200]]

\* adaptation/levels.py: apply_level(base, level)
apply_level(base, level) ==
    LET speed_factor == Max(60, 100 - 5 * (level - 1))
    IN  [global_params |->
            [base.global_params EXCEPT
               !.event_rate_sec = Max(120000, (base.global_params.event_rate_sec * speed_factor) \div 100),
               !.time_pressure = Max(80000, (base.global_params.time_pressure * speed_factor) \div 100)],
         compare |->
            [base.compare EXCEPT
               !.code_len = Min(7, base.compare.code_len + level \div 2),
               !.similarity_rate = Min(700, base.compare.similarity_rate + 20 * (level - 1)),
               !.time_limit_ms = Max(900, IntTimes(base.compare.time_limit_ms, speed_factor, 100))],
         memory |->
            [base.memory EXCEPT
               !.seq_len = Min(8, base.memory.seq_len + level \div 2),
               !.time_limit_ms = Max(1200, IntTimes(base.memory.time_limit_ms, speed_factor, 100))],
         switch |->
            [base.switch EXCEPT
               !.rule_switch_rate = Min(600, base.switch.rule_switch_rate + 30 * (level - 1)),
               !.time_limit_ms = Max(900, IntTimes(base.switch.time_limit_ms, speed_factor, 100))]]

\* apply_tempo without the floors of the time limits
apply_tempo_no_floor(diff, tempo_offset) ==
    LET factor == Max(60, 100 - 8 * tempo_offset)
    IN  [diff EXCEPT
           !.compare.time_limit_ms = IntTimes(diff.compare.time_limit_ms, factor, 100),
           !.memory.time_limit_ms = IntTimes(diff.memory.time_limit_ms, factor, 100),
           !.switch.time_limit_ms = IntTimes(diff.switch.time_limit_ms, factor, 100)]

\* adaptation/levels.py: apply_tempo(diff, tempo_offset)
apply_tempo(diff, tempo_offset) ==
    LET factor == Max(60, 100 - 8 * tempo_offset)
    IN  [global_params |->
            [diff.global_params EXCEPT
               !.event_rate_sec = Max(100000, (diff.global_params.event_rate_sec * factor) \div 100),
               !.time_pressure = Max(80000, (diff.global_params.time_pressure * factor) \div 100)],
         compare |-> [diff.compare EXCEPT
                        !.time_limit_ms = Max(900, IntTimes(diff.compare.time_limit_ms, factor, 100))],
         memory |-> [diff.memory EXCEPT
                       !.time_limit_ms = Max(1200, IntTimes(diff.memory.time_limit_ms, factor, 100))],
         switch |-> [diff.switch EXCEPT
                       !.time_limit_ms = Max(900, IntTimes(diff.switch.time_limit_ms, factor, 100))]]

\* game/adaptation/levels.py: apply_level(base, level); speed_factor in
\* thousandths, speed_factor * first_level_bonus in hundred-thousandths
game_apply_level(base, level) ==
    LET speed_factor == Max(820, IF level <= 5 THEN 1000 - 35 * (level - 1)
                                 ELSE 1000 - 35 * 4 - 15 * (level - 5))
        first_level_bonus == IF level = 1 THEN 125 ELSE 100
        Time(floor, limit) ==
            Max(floor, IntTimes(limit, speed_factor * first_level_bonus, 100000))
    IN  [global_params |->
            [base.global_params EXCEPT
               !.event_rate_sec = Max(140000, (base.global_params.event_rate_sec * speed_factor) \div 1000),
               !.time_pressure = base.global_params.time_pressure],
         compare |->
            [base.compare EXCEPT
               !.code_len = Min(7, base.compare.code_len + level \div 2),
               !.similarity_rate = Min(700, base.compare.similarity_rate + 20 * (level - 1)),
               !.time_limit_ms = Time(900, base.compare.time_limit_ms)],
         memory |->
            [base.memory EXCEPT
               !.seq_len = Min(8, base.memory.seq_len + level \div 2),
               !.time_limit_ms = Time(1200, base.memory.time_limit_ms)],
         switch |->
            [base.switch EXCEPT
               !.rule_switch_rate = Min(600, base.switch.rule_switch_rate + 30 * (level - 1)),
               !.rule_complexity = Min(7, base.switch.rule_complexity + level \div 2),
               !.time_limit_ms = Time(900, base.switch.time_limit_ms)],
         parity |->
            [base.parity EXCEPT
               !.min_value = Max(-999, base.parity.min_value - Max(0, level - 5) * 10),
               !.max_value = Min(999, base.parity.max_value + (level - 1) * 40),
               !.question_complexity = Min(7, base.parity.question_complexity + level \div 2),
               !.time_limit_ms = Time(900, base.parity.time_limit_ms)],
         radar |->
            [base.radar EXCEPT
               !.signal_len = Min(9, base.radar.signal_len + level \div 2),
               !.target_pool_size = Min(7, base.radar.target_pool_size + level \div 2),
               !.time_limit_ms = Time(900, base.radar.time_limit_ms)]]

\* game/adaptation/levels.py: apply_tempo(diff, tempo_offset)
game_apply_tempo(diff, tempo_offset) ==
    LET factor == Max(60, 100 - 8 * tempo_offset)
        tempo == apply_tempo([f \in {"global_params", "compare", "memory", "switch"} |-> diff[f]],
                             tempo_offset)
    IN  [global_params |-> tempo.global_params,
         compare |-> tempo.compare,
         memory |-> tempo.memory,
         switch |-> tempo.switch,
         parity |-> [diff.parity EXCEPT
                       !.time_limit_ms = Max(900, IntTimes(diff.parity.time_limit_ms, factor, 100))],
         radar |-> [diff.radar EXCEPT
                      !.time_limit_ms = Max(900, IntTimes(diff.radar.time_limit_ms, factor, 100))]]

\* the time limits of a DifficultyConfig, by task kind
TimeLimits(diff) == [k \in DOMAIN diff \ {"global_params"} |-> diff[k].time_limit_ms]

\* GameApp.__init__ with a base difficulty: no level applied yet
InitLevels ==
    /\ config \in {[base |-> base, level |-> None, tempo_offset |-> None,
                    current_difficulty |-> None, game_difficulty |-> None] :
                      base \in BaseDifficulties}
    /\ tm = None
    /\ results = <<>>
    /\ now = 0
    /\ emitted = <<>>
    /\ tm2 = None
    /\ results2 = <<>>
    /\ task = NoTask
    /\ got = <<>>
    /\ delivered = <<>>
    /\ app = NoApp

\* current_difficulty = apply_tempo(apply_level(base_difficulty, level), tempo)
\* as both modules compute it
ApplyLevelAndTempo(level, tempo_offset) ==
    /\ config' = [config EXCEPT
                    !.level = Some(level),
                    !.tempo_offset = Some(tempo_offset),
                    !.current_difficulty =
                       Some(apply_tempo(apply_level(config.base, level), tempo_offset)),
                    !.game_difficulty =
                       Some(game_apply_tempo(game_apply_level(GameDifficulty(config.base), level),
                                             tempo_offset))]
    /\ UNCHANGED <<tm, results, now, emitted, tm2, results2, task, got, delivered, app>>

\* every level of LevelConfig and every tempo offset (-2 .. +2)
NextLevels ==
    \E level \in 1..MaxLevel, tempo_offset \in -2..2 : ApplyLevelAndTempo(level, tempo_offset)

SpecLevels == InitLevels /\ [][NextLevels]_vars

----------------------------------------------------------------------------
(* SpecHandOver: GameApp with the difficulty its TaskManager holds; config *)
(* is base_difficulty and the scheduler's difficulty                      *)

\* Mutant: the new TaskManager is built with the difficulty of the one it
\* replaces.
HandOver_kept(a) == config.difficulty

\* current_difficulty as recomputed before every TaskManager(...) call and
\* in _maybe_adapt before set_difficulty, `a` the application as the call
\* leaves it
HandOver(a) == apply_tempo(apply_level(config.base, a.current_level), a.tempo_offset)

\* GameApp.__init__ with DifficultyConfig(): level start_level, tempo 0
InitHandOver ==
    /\ app = Some(GameApp(MaxSessionTasks, "ppo"))
    /\ config \in {[base |-> base,
                     difficulty |-> apply_tempo(apply_level(base, LevelConfig.start_level), 0)] :
                       base \in {b \in BaseDifficulties :
                                   TimeLimits(b) = [compare |-> 3200, memory |-> 4200,
                                                    switch |-> 3200]}}
    /\ tm = None
    /\ results = <<>>
    /\ now = 0
    /\ emitted = <<>>
    /\ tm2 = None
    /\ results2 = <<>>
    /\ task = NoTask
    /\ got = <<>>
    /\ delivered = <<>>

\* a step of the application; rebuilt: the step builds a TaskManager (or
\* calls set_difficulty)
HandOverStep(a, rebuilt) ==
    /\ app' = Some(a)
    /\ config' = IF rebuilt THEN [config EXCEPT !.difficulty = HandOver(a)] ELSE config
    /\ UNCHANGED <<tm, results, now, emitted, tm2, results2, task, got, delivered>>

HandOverBegin(start_level) ==
    /\ ~Val(app).started
    /\ HandOverStep(NoWrite(begin_user_run(Val(app), start_level)), TRUE)

HandOverRestore(snapshot) ==
    /\ ~Val(app).started
    /\ Val(app).awaiting_run_setup
    /\ HandOverStep(NoWrite(restore_saved_run(Val(app), snapshot)), TRUE)

\* Start / continue of a run that is set up, and Escape during a run
HandOverStartStop ==
    /\ Val(app).started \/ ~Val(app).awaiting_run_setup
    /\ HandOverStep([NoWrite(Val(app)) EXCEPT !.started = ~Val(app).started], FALSE)

\* the mode key or button in the menu, the policy's model file being there
HandOverToggleMode ==
    /\ ~Val(app).started
    /\ HandOverStep([NoWrite(Val(app)) EXCEPT
                       !.selected_mode = IF @ = "baseline" THEN "ppo" ELSE "baseline"], FALSE)

HandOverResult(r) ==
    /\ Val(app).started
    /\ Val(app).tasks_completed < Val(app).total_tasks
    /\ HandOverStep(NoWrite(handle_result(Val(app), r)), FALSE)

\* the frame that finds task_manager.is_done(): _start_next_batch returns
\* at once when the batch has no result
HandOverBatchEnd(env) ==
    /\ Val(app).started
    /\ Val(app).tasks_completed >= Val(app).total_tasks
    /\ ArgmaxInRange(Val(app).rl, env)
    /\ HandOverStep(start_next_batch(NoWrite(Val(app)), env), Val(app).batch # <<>>)

NextHandOver ==
    \/ \E level \in StartLevels : HandOverBegin(level)
    \/ \E snapshot \in Snapshots : HandOverRestore(snapshot)
    \/ HandOverStartStop
    \/ HandOverToggleMode
    \/ \E r \in {ResultOf(TRUE, FALSE, 600), ResultOf(FALSE, TRUE, 1600)} : HandOverResult(r)
    \/ \E env \in PolicyEnvs : HandOverBatchEnd(env)

SpecHandOver == InitHandOver /\ [][NextHandOver]_vars

----------------------------------------------------------------------------
(* SpecTelemetry: the TelemetryClient of GameApp (app.telemetry), its      *)
(* queue file (config.queue_file) and the server. emitted holds the events *)
(* track has accepted, delivered the events the server has acknowledged,   *)
(* got the requests of the last call.                                      *)

MaxEvents == 3
MaxBatchSize == 2

\* the wall clock time.time() in ms: far from 0 when the program starts
time_time(now_ms) == MaxTicks * TickMs + now_ms

\* TelemetryClient.__init__ with the queue _load_queue returns
TelemetryClient(max_batch_size, flush_interval_ms, loaded) ==
    [enabled |-> TRUE,
     max_batch_size |-> Max(1, max_batch_size),
     flush_interval_ms |-> Max(100, flush_interval_ms),
     queue |-> loaded,
     last_flush_ts |-> 0,
     last_error |-> ""]

\* json.dumps of an event as one line of the file, and json.loads of a line
json_dumps(event) == [json |-> "object", event_id |-> event.event_id]
json_loads(line) == [event_id |-> line.event_id]
IsObjectLine(line) == line.json = "object"

\* TelemetryClient._load_queue: no file gives no events; lines that are no
\* JSON object are skipped
load_queue(file) ==
    IF IsNone(file) THEN <<>>
    ELSE LET objects == SelectSeq(Val(file), IsObjectLine)
         IN  [i \in 1..Len(objects) |-> json_loads(objects[i])]

\* TelemetryClient._save_queue: an empty queue removes the file
save_queue(queue) ==
    IF queue = <<>> THEN None
    ELSE Some([i \in 1..Len(queue) |-> json_dumps(queue[i])])

\* what urlopen and resp.read() give: an exception raised, or a status and
\* a body (its JSON kind and the value of "ok")
Reply(raised, status, kind, ok) == [raised |-> raised, status |-> status, kind |-> kind, ok |-> ok]

Acknowledged == Reply("", 200, "object", "true")

FailedReplies ==
    { Reply("URLError", 0, "", ""), Reply("HTTPError", 500, "", ""),
      Reply("", 204, "", ""), Reply("", 200, "invalid", ""),
      Reply("", 200, "array", ""), Reply("", 200, "object", "false"),
      Reply("", 200, "object", "1"), Reply("", 200, "object", "missing") }

\* the replies the server gives to the requests of one call: it
\* acknowledges some and then fails
ReplySeqs ==
    { [i \in 1..(MaxEvents + 1) |-> IF i <= acks THEN Acknowledged ELSE failed] :
        acks \in 0..(MaxEvents + 1), failed \in FailedReplies }

\* Mutant: the batch leaves the queue when it is sent, whatever the reply.
RECURSIVE flush_drop_sent(_, _, _, _, _)
flush_drop_sent(c, force, now_ts, replies, sent) ==
    IF ~c.enabled \/ c.queue = <<>> THEN [client |-> c, sent |-> sent]
    ELSE IF ~force /\ now_ts - c.last_flush_ts < c.flush_interval_ms
    THEN [client |-> c, sent |-> sent]
    ELSE LET batch == SubSeq(c.queue, 1, Min(Len(c.queue), c.max_batch_size))
             requests == Append(sent, [force |-> force, events |-> batch,
                                     reply |-> replies[Len(sent) + 1]])
             dropped == [c EXCEPT !.last_flush_ts = now_ts,
                                  !.queue = SubSeq(c.queue, Len(batch) + 1, Len(c.queue))]
         IN  IF replies[Len(sent) + 1] # Acknowledged
             THEN [client |-> [dropped EXCEPT !.last_error = "connection_error"],
                   sent |-> requests]
             ELSE IF dropped.queue # <<>> /\ force
                  THEN flush_drop_sent(dropped, TRUE, now_ts, replies, requests)
                  ELSE [client |-> dropped, sent |-> requests]

\* TelemetryClient.flush(force) at wall clock now_ts; `sent` are the
\* requests made so far by this call, each with the reply it got and the
\* force argument of the call
RECURSIVE flush(_, _, _, _, _)
flush(c, force, now_ts, replies, sent) ==
    IF ~c.enabled \/ c.queue = <<>> THEN [client |-> c, sent |-> sent]
    ELSE IF ~force /\ now_ts - c.last_flush_ts < c.flush_interval_ms
    THEN [client |-> c, sent |-> sent]
    ELSE LET stamped == [c EXCEPT !.last_flush_ts = now_ts]
             batch == SubSeq(c.queue, 1, Min(Len(c.queue), c.max_batch_size))
             reply == replies[Len(sent) + 1]
             requests == Append(sent, [force |-> force, events |-> batch, reply |-> reply])
         IN  IF reply.raised # ""
             THEN [client |-> [stamped EXCEPT !.last_error = "connection_error"],
                   sent |-> requests]
             ELSE IF reply.status # 200 THEN [client |-> stamped, sent |-> requests]
             ELSE IF reply.kind = "invalid"
             THEN [client |-> [stamped EXCEPT !.last_error = "connection_error"],
                   sent |-> requests]
             ELSE IF reply.kind # "object" \/ reply.ok # "true"
             THEN [client |-> [stamped EXCEPT !.last_error = "invalid_server_response"],
                   sent |-> requests]
             ELSE LET acked == [stamped EXCEPT
                                  !.queue = SubSeq(c.queue, Len(batch) + 1, Len(c.queue)),
                                  !.last_error = ""]
                  IN  IF acked.queue # <<>> /\ force
                      THEN flush(acked, TRUE, now_ts, replies, requests)
                      ELSE [client |-> acked, sent |-> requests]

\* the events of the requests that were acknowledged, in the order sent
RECURSIVE AckedEvents(_)
AckedEvents(sent) ==
    IF sent = <<>> THEN <<>>
    ELSE (IF Head(sent).reply = Acknowledged THEN Head(sent).events ELSE <<>>)
            \o AckedEvents(Tail(sent))

\* GameApp.__init__ builds the client; there may be a queue file of an
\* earlier run
InitTelemetry ==
    \E max_batch_size \in 0..MaxBatchSize, earlier \in 0..1 :
        LET file == save_queue([i \in 1..earlier |-> [event_id |-> i]])
        IN  /\ app = Some([telemetry |-> TelemetryClient(max_batch_size, 2 * TickMs,
                                                        load_queue(file))])
            /\ config = [queue_file |-> file]
            /\ emitted = load_queue(file)
    /\ delivered = <<>>
    /\ got = <<>>
    /\ now = 0
    /\ tm = None
    /\ results = <<>>
    /\ tm2 = None
    /\ results2 = <<>>
    /\ task = NoTask

\* what a call on the client leaves behind: the client, the file when
\* _save_queue ran, and the server's acknowledged events
Called(out, saved, now_ms) ==
    /\ app' = Some([telemetry |-> out.client])
    /\ config' = IF saved \/ AckedEvents(out.sent) # <<>>
                 THEN [queue_file |-> save_queue(out.client.queue)]
                 ELSE config
    /\ delivered' = delivered \o AckedEvents(out.sent)
    /\ got' = out.sent
    /\ now' = now_ms
    /\ UNCHANGED <<tm, results, tm2, results2, task>>

\* TelemetryClient.track: the event gets a fresh event_id (uuid4), is queued
\* and saved, and flush() is called; without user or session, or disabled,
\* nothing happens. The call comes in the frame of the last one, a frame
\* later or a flush interval later.
TelemetryTrack(user_id, now_ms, replies) ==
    /\ now_ms \in {now, now + TickMs, now + 2 * TickMs}
    /\ Len(emitted) < MaxEvents
    /\ LET c == Val(app).telemetry
           event == [event_id |-> Len(emitted) + 1]
           accepted == c.enabled /\ user_id # ""
           queued == [c EXCEPT !.queue = Append(c.queue, event)]
       IN  /\ emitted' = IF accepted THEN Append(emitted, event) ELSE emitted
           /\ Called(IF accepted THEN flush(queued, FALSE, time_time(now_ms), replies, <<>>)
                     ELSE [client |-> c, sent |-> <<>>],
                     accepted, now_ms)

\* self.telemetry.flush() of every frame and flush(force=True) at the end
TelemetryFlush(force, now_ms, replies) ==
    /\ now_ms \in {now, now + TickMs, now + 2 * TickMs}
    /\ emitted' = emitted
    /\ Called(flush(Val(app).telemetry, force, time_time(now_ms), replies, <<>>),
              FALSE, now_ms)

\* set_endpoint with an empty or a non-empty address
TelemetrySetEndpoint(endpoint_url) ==
    /\ app' = Some([telemetry |-> [Val(app).telemetry EXCEPT !.enabled = endpoint_url # ""]])
    /\ got' = <<>>
    /\ UNCHANGED <<config, emitted, delivered, now, tm, results, tm2, results2, task>>

\* the program ends and starts again: a new client loads the queue file
TelemetryRestart ==
    /\ app' = Some([telemetry |->
                      TelemetryClient(Val(app).telemetry.max_batch_size, 2 * TickMs,
                                      load_queue(config.queue_file))])
    /\ got' = <<>>
    /\ UNCHANGED <<config, emitted, delivered, now, tm, results, tm2, results2, task>>

NextTelemetry ==
    \/ \E user_id \in {"", "u1"}, n \in Times, replies \in ReplySeqs :
          TelemetryTrack(user_id, n, replies)
    \/ \E force \in BOOLEAN, n \in Times, replies \in ReplySeqs :
          TelemetryFlush(force, n, replies)
    \/ \E endpoint_url \in {"", "http://server/v1/events"} : TelemetrySetEndpoint(endpoint_url)
    \/ TelemetryRestart

SpecTelemetry == InitTelemetry /\ [][NextTelemetry]_vars

----------------------------------------------------------------------------
(* SpecScene: one block of GameScene (app) with its TrialStateMachine and  *)
(* its InputManager, driven as main.py drives it: start(), then            *)
(* handle_event for every pygame event and update() once per frame         *)

MaxTrials == 2

PHASE_CUE == "CUE"
PHASE_WAIT == "WAIT"
PHASE_FEEDBACK == "FEEDBACK"
PHASE_ITI == "ITI"

\* BlockParams: a block without waiting times and one with them
BlockParams(n_trials, cue_ms, time_limit_ms, feedback_ms, iti_ms) ==
    [n_trials |-> n_trials, cue_ms |-> cue_ms, time_limit_ms |-> time_limit_ms,
     feedback_ms |-> feedback_ms, iti_ms |-> iti_ms]

\* generate_block: n_trials TrialSpecs with trial_index 0, 1, ...; the seed
\* decides the correct actions
generate_block(params, correct_actions) ==
    [i \in 1..params.n_trials |->
        [trial_index |-> i - 1, correct_action |-> correct_actions[i]]]

\* TrialStateMachine.__init__
TrialStateMachine(params) ==
    [params |-> params, trial |-> None, phase |-> PHASE_CUE, phase_started_at_ms |-> 0,
     wait_started_at_ms |-> None, response_action |-> None, rt_ms |-> None,
     is_timeout |-> FALSE, is_correct |-> FALSE]

start_trial(sm, trial, now_ms) ==
    [sm EXCEPT !.trial = Some(trial), !.phase = PHASE_CUE, !.phase_started_at_ms = now_ms,
               !.wait_started_at_ms = None, !.response_action = None, !.rt_ms = None,
               !.is_timeout = FALSE, !.is_correct = FALSE]

TrialEvent(sm) ==
    [trial_index |-> Val(sm.trial).trial_index,
     correct_action |-> Val(sm.trial).correct_action,
     response_action |-> sm.response_action, is_correct |-> sm.is_correct,
     rt_ms |-> sm.rt_ms, is_timeout |-> sm.is_timeout]

\* TrialStateMachine.update(now_ms, action): the machine, and the event when
\* the trial has finished
TrialStateMachine_update(sm, now_ms, action) ==
    LET goes_on(next) == [sm |-> next, event |-> None]
        start == IF IsNone(sm.wait_started_at_ms) THEN now_ms ELSE Val(sm.wait_started_at_ms)
    IN  IF IsNone(sm.trial) THEN goes_on(sm)
        ELSE IF sm.phase = PHASE_CUE
        THEN IF now_ms - sm.phase_started_at_ms >= sm.params.cue_ms
             THEN goes_on([sm EXCEPT !.phase = PHASE_WAIT, !.phase_started_at_ms = now_ms,
                                     !.wait_started_at_ms = Some(now_ms)])
             ELSE goes_on(sm)
        ELSE IF sm.phase = PHASE_WAIT
        THEN IF ~IsNone(action) /\ IsNone(sm.response_action)
             THEN goes_on([sm EXCEPT !.response_action = action,
                                     !.rt_ms = Some(now_ms - start),
                                     !.is_correct = (Val(action) = Val(sm.trial).correct_action),
                                     !.is_timeout = FALSE,
                                     !.phase = PHASE_FEEDBACK,
                                     !.phase_started_at_ms = now_ms])
             ELSE IF now_ms - start >= sm.params.time_limit_ms
             THEN goes_on([sm EXCEPT !.response_action = None, !.rt_ms = None,
                                     !.is_timeout = TRUE, !.is_correct = FALSE,
                                     !.phase = PHASE_FEEDBACK,
                                     !.phase_started_at_ms = now_ms])
             ELSE goes_on(sm)
        ELSE IF sm.phase = PHASE_FEEDBACK
        THEN IF now_ms - sm.phase_started_at_ms >= sm.params.feedback_ms
             THEN goes_on([sm EXCEPT !.phase = PHASE_ITI, !.phase_started_at_ms = now_ms])
             ELSE goes_on(sm)
        ELSE IF now_ms - sm.phase_started_at_ms >= sm.params.iti_ms
             THEN [sm |-> sm, event |-> Some(TrialEvent(sm))]
             ELSE goes_on(sm)

\* InputManager: key_to_action and process_pygame_event, which keeps the
\* last game key pressed
key_to_action == [K_f |-> "F", K_j |-> "J", K_k |-> "K", K_l |-> "L"]

process_pygame_event(input, event) ==
    IF event.type # "KEYDOWN" THEN input
    ELSE IF event.key \in DOMAIN key_to_action
         THEN [input EXCEPT !.last_action = Some(key_to_action[event.key])]
         ELSE input

\* Mutant: poll_action returns the action and keeps it.
poll_action_kept(input) == [input |-> input, action |-> input.last_action]

\* InputManager.poll_action: the action, and the input without it
poll_action(input) ==
    [input |-> [input EXCEPT !.last_action = None], action |-> input.last_action]

\* GameScene.__init__; block is what generate_block(params, seed) returns
GameScene(params, block) ==
    [params |-> params, block |-> block, trials |-> <<>>, results |-> <<>>,
     current_index |-> 0, sm |-> TrialStateMachine(params),
     input |-> [last_action |-> None],
     started |-> FALSE, finished |-> FALSE, score |-> 0]

\* GameScene.start at now_ms
GameScene_start(scene, now_ms) ==
    LET reset == [scene EXCEPT !.trials = scene.block, !.results = <<>>,
                               !.current_index = 0, !.score = 0, !.finished = FALSE]
    IN  IF Len(reset.trials) > 0
        THEN [reset EXCEPT !.input.last_action = None,
                           !.sm = start_trial(scene.sm, reset.trials[1], now_ms),
                           !.started = TRUE]
        ELSE [reset EXCEPT !.finished = TRUE, !.started = TRUE]

\* the part of GameScene.update after the check of _started and _finished
GameScene_update_body(scene, now_ms) ==
    LET polled == poll_action(scene.input)
        out == TrialStateMachine_update(scene.sm, now_ms, polled.action)
        ran == [scene EXCEPT !.input = polled.input, !.sm = out.sm]
    IN  IF IsNone(out.event) THEN ran
        ELSE LET recorded ==
                   [ran EXCEPT !.results = Append(scene.results, Val(out.event)),
                               !.score = IF Val(out.event).is_correct THEN @ + 1 ELSE @,
                               !.current_index = @ + 1]
             IN  IF recorded.current_index >= Len(recorded.trials)
                 THEN [recorded EXCEPT !.finished = TRUE]
                 ELSE [recorded EXCEPT
                         !.input.last_action = None,
                         !.sm = start_trial(out.sm,
                                            recorded.trials[recorded.current_index + 1],
                                            now_ms)]

\* Mutant: update goes on after the block has finished.
GameScene_update_on(scene, now_ms) ==
    IF ~scene.started THEN scene ELSE GameScene_update_body(scene, now_ms)

\* GameScene.update at now_ms
GameScene_update(scene, now_ms) ==
    IF ~scene.started \/ scene.finished THEN scene
    ELSE GameScene_update_body(scene, now_ms)

\* the clock of a block: enough frames for every trial to time out
SceneHorizonMs == MaxTrials * 6 * TickMs

SceneStep(scene, now_ms) ==
    /\ app' = Some(scene)
    /\ now' = now_ms
    /\ UNCHANGED <<tm, results, emitted, tm2, results2, task, got, delivered, config>>

InitScene ==
    \E n_trials \in 0..MaxTrials, correct_actions \in [1..MaxTrials -> {"F", "J"}],
       waits \in {0, TickMs} :
        /\ app = Some(GameScene(BlockParams(n_trials, waits, 2 * TickMs, waits, waits),
                                generate_block([n_trials |-> n_trials], correct_actions)))
        /\ now = 0
        /\ tm = None
        /\ results = <<>>
        /\ emitted = <<>>
        /\ tm2 = None
        /\ results2 = <<>>
        /\ task = NoTask
        /\ got = <<>>
        /\ delivered = <<>>
        /\ config = None

\* scene.start()
SceneStart ==
    /\ ~Val(app).started
    /\ SceneStep(GameScene_start(Val(app), now), now)

\* scene.handle_event(event) for a pygame event of the frame
SceneHandleEvent(event) ==
    /\ Val(app).started
    /\ SceneStep([Val(app) EXCEPT !.input = process_pygame_event(@, event)], now)

\* scene.update() of a frame; clock.tick(fps) separates two frames
SceneUpdate(now_ms) ==
    /\ Val(app).started
    /\ now_ms > now
    /\ now_ms <= SceneHorizonMs
    /\ SceneStep(GameScene_update(Val(app), now_ms), now_ms)

NextScene ==
    \/ SceneStart
    \/ \E event \in {KeyEvent("K_f", "f"), KeyEvent("K_j", "j"), KeyEvent("K_a", "a"),
                     [type |-> "KEYUP", key |-> "K_f", unicode |-> ""]} :
          SceneHandleEvent(event)
    \/ \E frames \in 1..2 : SceneUpdate(now + frames * TickMs)

SpecScene == InitScene /\ [][NextScene]_vars

----------------------------------------------------------------------------
(* Properties of the scheduler and of the task contract *)

ParallelStreams(m) == m.difficulty.global_params.parallel_streams
LastResult == results[Len(results)]

\* C1: after any sequence of update and handle_event calls with
\* non-decreasing timestamps, tasks_completed <= tasks_created <=
\* total_tasks and the number of active tasks is at most parallel_streams.
C1_CountersBounded ==
    /\ tm.tasks_completed <= tm.tasks_created
    /\ tm.tasks_created <= tm.total_tasks
    /\ Len(tm.active_tasks) <= ParallelStreams(tm)

\* the quota and the concurrency cap are both reached after a retirement
C1_Witness ==
    /\ tm.tasks_completed >= 1
    /\ tm.tasks_created = tm.total_tasks
    /\ Len(tm.active_tasks) = ParallelStreams(tm)

\* C2: every task the scheduler created has its TaskResult produced at most
\* once, by handle_event or by update, and it is in active_tasks exactly as
\* long as its result has not been produced.
C2_ResultOnce ==
    /\ Len(emitted) = Len(results)
    /\ Len(emitted) = tm.tasks_completed
    /\ \A i \in DOMAIN emitted : emitted[i].by \in {"update", "handle_event"}
    /\ \A i, j \in DOMAIN emitted : emitted[i].serial = emitted[j].serial => i = j
    /\ \A k \in 1..tm.tasks_created :
         (\E i \in DOMAIN emitted : emitted[i].serial = k)
           <=> ~(\E j \in DOMAIN tm.active_tasks : tm.active_tasks[j].serial = k)
    /\ \A j \in DOMAIN tm.active_tasks :
         /\ tm.active_tasks[j].serial \in 1..tm.tasks_created
         /\ ~is_complete(tm.active_tasks[j])

\* one task was retired by a response and another by its deadline, and
\* further calls followed
C2_Witness ==
    /\ \E i \in DOMAIN emitted : emitted[i].by = "handle_event"
    /\ \E i \in DOMAIN emitted : emitted[i].by = "update"
    /\ now > LastResult.finished_ms

FinishFields(t) == <<t.response, t.correct, t.is_timeout, t.finished_ms>>

\* C3: once a task is finished, a further handle_event or update call leaves
\* response, correct, is_timeout and finished_ms unchanged, and every
\* get_result() call after the finish returns the same TaskResult.
C3_FinishOnce ==
    [][/\ is_complete(Val(task)) => FinishFields(Val(task')) = FinishFields(Val(task))
       /\ \A i, j \in DOMAIN got' :
            got'[i].finished /\ got'[j].finished => got'[i].result = got'[j].result]_vars

\* an answered task was given a deadline check at or after its deadline, and
\* its result was read before and after
C3_Witness ==
    /\ ~IsNone(Val(task).response)
    /\ now >= Val(task).deadline_ms
    /\ Len(got) = 2 /\ got[1].finished
    /\ got[1].result.finished_ms < now

AllTimedOut ==
    /\ Len(results) = tm.total_tasks
    /\ \A i \in DOMAIN results :
         /\ results[i].is_timeout
         /\ ~results[i].correct
         /\ IsNone(results[i].response)

\* C4: on one stream and without responses, update calls with a strictly
\* advancing clock eventually make is_done() true, and by then exactly
\* total_tasks results were emitted, all of them timeouts without response.
C4_AllTimeOut == (<>is_done(tm)) /\ [](is_done(tm) => AllTimedOut)

C4_Witness == is_done(tm) /\ tm.total_tasks >= 2 /\ Len(results) = tm.total_tasks

C6_DeadlineCheck ==
    [][\A n \in Times :
         (TaskUpdate(n) /\ ~is_complete(Val(task)))
           => IF n >= Val(task).deadline_ms
              THEN /\ Val(task').finished_ms = Some(n)
                   /\ Val(task').is_timeout
                   /\ ~Val(task').correct
                   /\ IsNone(Val(task').response)
              ELSE task' = task]_vars

\* the first tick at or after the deadline timed the task out
C6_Witness ==
    /\ Val(task).is_timeout
    /\ Val(task).finished_ms = Some(now)
    /\ now - Val(task).deadline_ms < TickMs

\* C7: a response that opens a frame whose timestamp is at or past the
\* focused task's deadline is accepted: the task is retired by
\* handle_event with the response and is_timeout = false.
C7_ResponseBeatsDeadline ==
    [][(/\ delivered' # <<>>
        /\ ~IsNone(read_left_right_key(delivered'[1]))
        /\ tm.active_tasks # <<>>
        /\ now' >= tm.active_tasks[1].deadline_ms)
         => /\ Len(results') > Len(results)
            /\ emitted'[Len(emitted) + 1] =
                 [serial |-> tm.active_tasks[1].serial, by |-> "handle_event"]
            /\ ~results'[Len(results) + 1].is_timeout
            /\ ~IsNone(results'[Len(results) + 1].response)
            /\ results'[Len(results) + 1].finished_ms = now']_vars

\* a frame retired a task by response at or after the task's deadline
C7_Witness ==
    /\ delivered # <<>>
    /\ ~IsNone(read_left_right_key(delivered[1]))
    /\ \E i \in DOMAIN results :
         /\ emitted[i].by = "handle_event"
         /\ results[i].finished_ms = now
         /\ now >= Deadline(results[i].created_ms, results[i].difficulty.time_limit_ms,
                            tm.difficulty.global_params.time_pressure)

\* C8: in every TaskResult rt_ms is None exactly when the task was retired
\* by timeout with response = None.
C8_RtAbsentIffTimeout ==
    \A i \in DOMAIN results :
        IsNone(results[i].rt_ms) <=> (results[i].is_timeout /\ IsNone(results[i].response))

\* C9: the reported reaction time is finished_ms - created_ms and is never
\* negative.
C9_ReactionTime ==
    \A i \in DOMAIN results :
        /\ ~IsNone(results[i].rt_ms)
        /\ Val(results[i].rt_ms) = results[i].finished_ms - results[i].created_ms
        /\ Val(results[i].rt_ms) >= 0

\* an answer given some time after the task appeared
C9_Witness ==
    \E i \in DOMAIN results :
        /\ ~IsNone(results[i].response)
        /\ Val(results[i].rt_ms) > 0

SpawnAllowed(m, now_ms) ==
    /\ m.tasks_created < m.total_tasks
    /\ Len(m.active_tasks) < ParallelStreams(m)
    /\ now_ms >= m.next_spawn_after_ms
    /\ now_ms - m.last_spawn_ms >= m.difficulty.global_params.event_rate_sec

\* C10: the spawn step of update creates a task exactly when the quota, the
\* concurrency cap, the cooldown and the spawn interval all allow it; then
\* one task created at now is appended, tasks_created grows by one and
\* last_spawn_ms becomes now; otherwise the step changes nothing.
C10_SpawnStep ==
    [][\A now_ms \in Times :
         Update(now_ms)
           => LET swept == update_retire(tm, now_ms).tm
                  n == Len(swept.active_tasks)
              IN  IF SpawnAllowed(swept, now_ms)
                  THEN /\ Len(tm'.active_tasks) = n + 1
                       /\ SubSeq(tm'.active_tasks, 1, n) = swept.active_tasks
                       /\ tm'.active_tasks[n + 1].created_ms = now_ms
                       /\ ~is_complete(tm'.active_tasks[n + 1])
                       /\ tm'.tasks_created = swept.tasks_created + 1
                       /\ tm'.last_spawn_ms = now_ms
                       /\ tm'.tasks_completed = swept.tasks_completed
                       /\ tm'.next_spawn_after_ms = swept.next_spawn_after_ms
                  ELSE tm' = swept]_vars

\* a task was spawned by an update once the cooldown after a retirement
\* had passed
C10_Witness ==
    /\ tm.inter_task_pause_ms > 0
    /\ tm.tasks_completed >= 1
    /\ tm.active_tasks # <<>>
    /\ tm.active_tasks[Len(tm.active_tasks)].created_ms = now
    /\ tm.last_spawn_ms = now

\* C11: a retirement at time t pushes the cooldown to at least
\* t + inter_task_pause_ms, the cooldown never moves backwards, and a task is
\* never created earlier than inter_task_pause_ms after any retirement,
\* the retirements of the same call included.
C11_CooldownRespected ==
    [][/\ tm'.next_spawn_after_ms >= tm.next_spawn_after_ms
       /\ tm'.tasks_completed > tm.tasks_completed
            => tm'.next_spawn_after_ms >= now' + tm.inter_task_pause_ms
       /\ tm'.tasks_created > tm.tasks_created
            => \A i \in DOMAIN results' :
                   tm'.active_tasks[Len(tm'.active_tasks)].created_ms
                     >= results'[i].finished_ms + tm.inter_task_pause_ms]_vars

\* a task was created at the very moment the cooldown of the last
\* retirement ended
C11_Witness ==
    /\ tm.inter_task_pause_ms > 0
    /\ results # <<>>
    /\ tm.active_tasks # <<>>
    /\ tm.active_tasks[Len(tm.active_tasks)].created_ms
         = LastResult.finished_ms + tm.inter_task_pause_ms

\* C12: handle_event reaches only the oldest active task: every other active
\* task stays in the list unchanged, a result returned is the oldest task's,
\* and without an active task the call changes nothing and returns nothing.
C12_FocusedOnly ==
    [][\A ev \in Events, n \in Times :
         HandleEvent(ev, n)
           => IF tm.active_tasks = <<>>
              THEN tm' = tm /\ results' = results
              ELSE /\ \A j \in 2..Len(tm.active_tasks) :
                        \E k \in DOMAIN tm'.active_tasks :
                            tm'.active_tasks[k] = tm.active_tasks[j]
                   /\ \A j \in DOMAIN tm.active_tasks :
                        \A i \in DOMAIN tm.active_tasks :
                            i < j => tm.active_tasks[i].created_ms <= tm.active_tasks[j].created_ms
                   /\ Len(results') <= Len(results) + 1
                   /\ Len(results') > Len(results)
                        => emitted'[Len(emitted')].serial = tm.active_tasks[1].serial]_vars

\* a response retired the older of two active tasks and the younger one is
\* still active
C12_Witness ==
    /\ emitted # <<>>
    /\ emitted[Len(emitted)].by = "handle_event"
    /\ tm.active_tasks # <<>>
    /\ tm.active_tasks[1].created_ms < LastResult.finished_ms
    /\ tm.active_tasks[1].serial > emitted[Len(emitted)].serial

\* C13: after update(now) no active task is past its deadline, the spawn
\* attempt has seen the slots and the cooldown the retirements of this call
\* left (nothing remains to be spawned at now), and the results of the call
\* are in the order in which their tasks were created.
C13_RetireThenSpawn ==
    [][\A n \in Times :
         Update(n)
           => /\ \A j \in DOMAIN tm'.active_tasks : tm'.active_tasks[j].deadline_ms > n
              /\ ~SpawnAllowed(tm', n)
              /\ \A i, j \in (Len(emitted) + 1)..Len(emitted') :
                   i < j => /\ emitted'[i].serial < emitted'[j].serial
                            /\ results'[i].created_ms <= results'[j].created_ms]_vars

\* one update retired two tasks, and one update retired a task and spawned
\* its successor
C13_Witness ==
    /\ Len(results) >= 2
    /\ emitted[Len(emitted)].by = "update"
    /\ emitted[Len(emitted) - 1].by = "update"
    /\ results[Len(results) - 1].finished_ms = LastResult.finished_ms
    /\ results[Len(results) - 1].created_ms < LastResult.created_ms

----------------------------------------------------------------------------
(* Properties of the level state and of the adaptation step *)

\* C14: whatever batch ends, adaptation steps, session starts and snapshot
\* restores have happened, current_level is in [min_level, max_level] and
\* tempo_offset is in [-2, 2].
C14_LevelStateInBounds ==
    app # NoApp =>
        /\ Val(app).current_level \in LevelConfig.min_level..LevelConfig.max_level
        /\ Val(app).tempo_offset \in -2..2

\* an adaptation step has just ended at the top level with the tempo at its
\* upper bound
C14_Witness ==
    /\ app # NoApp
    /\ Val(app).adapt_record # None
    /\ Val(app).current_level = LevelConfig.max_level
    /\ Val(app).tempo_offset = 2

\* the step is a batch end of the given mode in which an adaptation step ran
AdaptedIn(mode) ==
    /\ Val(app).started
    /\ Val(app).selected_mode = mode
    /\ Val(app').adapt_record # None

\* C15: an adaptation step of the heuristic strategy raises the tempo by 1
\* (at most to +2) when accuracy >= up_accuracy and mean RT <= up_rt_ms,
\* lowers it by 1 (at least to -2) when accuracy <= down_accuracy or mean RT
\* >= down_rt_ms, leaves it as it is otherwise, and leaves the level as it is.
C15_HeuristicTempoRule ==
    [][AdaptedIn("baseline") =>
         LET a == Val(app)
             window == WindowOf(a.batch)
             up == /\ FracGe(Accuracy(window), LevelConfig.up_accuracy, 1000)
                   /\ FracLe(MeanRt(window), LevelConfig.up_rt_ms, 1)
             down == \/ FracLe(Accuracy(window), LevelConfig.down_accuracy, 1000)
                     \/ FracGe(MeanRt(window), LevelConfig.down_rt_ms, 1)
         IN  /\ Val(app').tempo_offset =
                   IF up THEN Min(2, a.tempo_offset + 1)
                   ELSE IF down THEN Max(-2, a.tempo_offset - 1)
                   ELSE a.tempo_offset
             /\ \A env \in PolicyEnvs :
                   maybe_adapt(a, env).current_level = a.current_level]_vars

\* the policy cannot be asked in this step: the model file is missing, torch
\* or the model class do not import, the weights did not load (now or in an
\* earlier step), or the forward pass throws
PolicyUnavailable(rl, env) ==
    \/ ~env.exists
    \/ ~env.torch
    \/ env.throws
    \/ IF IsNone(rl.model) THEN RLAgent_load(rl, env).raised
       ELSE Val(rl.model) = "untrained"

\* C16: in policy mode, an adaptation step that finds the policy unavailable
\* or throwing takes the neutral action (tempo delta 0, the tempo stays as it
\* was), and the batch end still completes and sets up the next batch.
C16_NeutralWhenUnavailable ==
    [][\A env \in PolicyEnvs :
         (/\ AdaptedIn("ppo")
          /\ BatchEnd(env)
          /\ PolicyUnavailable(Val(app).rl, env))
         => /\ Val(Val(app').adapt_record).delta_tempo = 0
            /\ maybe_adapt(Val(app), env).tempo_offset = Val(app).tempo_offset
            /\ Val(app').batch = <<>>
            /\ Val(app').tasks_completed = 0]_vars

\* the policy answers in this step and its answer is the neutral action
PolicyChoosesNeutral(rl, env) ==
    /\ ~PolicyUnavailable(rl, env)
    /\ ArgmaxInRange(rl, env)
    /\ RLAgent_act(rl, env).delta_tempo = 0

\* C17: the AdaptationRecord written by a step taken while the policy was
\* missing, corrupt or failing marks the step as degraded: it differs from
\* the record the same step writes when the policy itself chooses the
\* neutral action.
C17_DegradedRecorded ==
    [][\A env \in PolicyEnvs :
         (/\ AdaptedIn("ppo")
          /\ BatchEnd(env)
          /\ PolicyUnavailable(Val(app).rl, env))
         => \A healthy \in PolicyEnvs :
              PolicyChoosesNeutral(Val(app).rl, healthy)
              => Val(app').adapt_record # maybe_adapt(Val(app), healthy).adapt_record]_vars

\* C18: whatever action id the policy can return at an adaptation step, the
\* tempo delta decoded from it is in {-1, 0, +1}: action - 1 in the
\* three-action space and (action mod 3) - 1 in the legacy nine-action space;
\* the level delta is 0; and the step records a decision of that kind.
C18_DecodedAction ==
    [][AdaptedIn("ppo") =>
         /\ \A env \in PolicyEnvs :
              (/\ ~PolicyUnavailable(Val(app).rl, env)
               /\ ArgmaxInRange(Val(app).rl, env))
              => LET acted == RLAgent_act(Val(app).rl, env)
                     expected == IF acted.rl.action_dim = 9
                                 THEN (env.action_id % 3) - 1
                                 ELSE env.action_id - 1
                 IN  /\ acted.rl.action_dim \in {3, 9}
                     /\ acted.action_id = env.action_id
                     /\ acted.delta_tempo = expected
                     /\ acted.delta_tempo \in {-1, 0, 1}
                     /\ acted.delta_level = 0
         /\ Val(Val(app').adapt_record).delta_tempo \in {-1, 0, 1}
         /\ Val(Val(app').adapt_record).delta_level = 0]_vars

\* a policy with the nine-action space has just lowered the tempo
C18_Witness ==
    /\ app # NoApp
    /\ Val(app).adapt_record # None
    /\ Val(Val(app).adapt_record).mode = "ppo"
    /\ Val(Val(app).adapt_record).delta_tempo = -1
    /\ Val(app).rl.action_dim = 9
    /\ Val(app).rl.model = Some("trained")
    /\ Val(app).rl.available

\* the answers and the correct answers of the batch that is ending
Answered(a) == Len(SelectSeq(a.batch, IsAnswered))
Correct(a) == Len(SelectSeq(a.batch, IsCorrect))

C20_BaselineLevelRule ==
    [][(Val(app).started /\ Val(app).selected_mode = "baseline") =>
         LET a == Val(app)
             need == Min(a.total_tasks, LevelConfig.baseline_required_correct)
             batch_end == a.tasks_completed >= a.total_tasks /\ a.batch # <<>>
         IN  /\ Val(app').current_level >= a.current_level
             /\ Val(app').current_level =
                   IF /\ batch_end
                      /\ Val(app').batch = <<>>
                      /\ Correct(a) >= need
                      /\ a.current_level < LevelConfig.max_level
                   THEN a.current_level + 1
                   ELSE a.current_level]_vars

\* a baseline batch has just ended with a level up, which paused the run
C20_Witness ==
    /\ app # NoApp
    /\ Val(app).adapt_record # None
    /\ Val(app).selected_mode = "baseline"
    /\ ~Val(app).started
    /\ Val(app).current_level = LevelConfig.min_level + 1

----------------------------------------------------------------------------
(* Properties of the batch end and of the session *)

\* the level-up condition of the policy mode holds for the batch that is ending
PolicyLevelUpFires(a) ==
    /\ 100 * Answered(a) >= 75 * a.total_tasks
    /\ 10 * Correct(a) >= 8 * Answered(a)

\* C21: when the level-up condition fires at the end of a policy-mode batch,
\* then below max_level the level goes up by one and the tempo stays where
\* the adaptation step left it, and at max_level the level stays and the
\* tempo goes up by one (at most to +2): never both.
C21_LevelOrTempo ==
    [][(AdaptedIn("ppo") /\ PolicyLevelUpFires(Val(app))) =>
         LET a == Val(app)
             adapted == Val(Val(app').adapt_record)
         IN  /\ adapted.level = a.current_level
             /\ IF a.current_level < LevelConfig.max_level
                THEN /\ Val(app').current_level = a.current_level + 1
                     /\ Val(app').tempo_offset = adapted.tempo_offset
                ELSE /\ Val(app').current_level = a.current_level
                     /\ Val(app').tempo_offset = Min(2, adapted.tempo_offset + 1)]_vars

\* a policy-mode batch at max_level has just ended with the tempo raised
\* above what its adaptation step left
C21_Witness ==
    /\ app # NoApp
    /\ Val(app).adapt_record # None
    /\ Val(app).selected_mode = "ppo"
    /\ Val(app).current_level = LevelConfig.max_level
    /\ Val(app).tempo_offset = Val(Val(app).adapt_record).tempo_offset + 1

\* the step is the end of a batch: the run is on, every task of the batch is
\* completed, and the batch's results are closed
BatchEnds ==
    /\ Val(app).started
    /\ Val(app).tasks_completed >= Val(app).total_tasks
    /\ Val(app).batch # <<>>
    /\ Val(app').batch = <<>>

\* C22: the end of a batch in which nothing was answered runs no adaptation
\* step and writes no record, leaves level, tempo, adapter and policy as they
\* were, and sets up the next batch with its counter at 0; its message is
\* the no-answers one, which no batch with an answer gets.
C22_IdleBatch ==
    [][BatchEnds =>
         LET a == Val(app)
             b == Val(app')
         IN  /\ Answered(a) = 0 =>
                   /\ b.adapt_record = None
                   /\ b.current_level = a.current_level
                   /\ b.tempo_offset = a.tempo_offset
                   /\ b.adapter = a.adapter
                   /\ b.rl = a.rl
                   /\ b.tasks_completed = 0
             /\ Answered(a) > 0 => b.adapt_record # None
             /\ (b.last_feedback_text = "no answers") <=> (Answered(a) = 0)]_vars

\* a batch has just ended without an answer
C22_Witness ==
    /\ app # NoApp
    /\ Val(app).last_feedback_text = "no answers"
    /\ Val(app).batch = <<>>
    /\ Val(app).tasks_completed = 0
    /\ Val(app).adapt_record = None
    /\ Val(app).tempo_offset # 0

C24_NewSessionResets ==
    [][(\E level \in StartLevels : BeginUserRun(level)) =>
         LET b == Val(app')
             fresh == GameApp(b.total_tasks, b.selected_mode)
         IN  /\ b.batch = fresh.batch
             /\ b.tasks_completed = fresh.tasks_completed
             /\ b.tempo_offset = fresh.tempo_offset
             /\ b.adapt_record = fresh.adapt_record
             /\ b.adapter = fresh.adapter]_vars

\* C26 as stated: the adaptation step first runs when the rolling window has
\* reached its size and afterwards once every check_every completed tasks,
\* so that every run of it finds window_size or check_every results
\* completed since the run before it (or since the start of the session).
C26_CheckEveryCadence ==
    [][Val(app').adapt_record # None =>
         Len(Val(app).batch) \in {LevelConfig.window_size, LevelConfig.check_every}]_vars

\* C26 as the code has it: the adaptation step runs exactly in the frame
\* that ends a batch with at least one answer, that is once every
\* total_tasks completed tasks, and in no other step: not when a result
\* arrives, and not because window_size or check_every results are there.
C26_BatchCadence ==
    [][LET a == Val(app)
           b == Val(app')
       IN  /\ b.adapt_record # None <=>
                 /\ a.started
                 /\ Len(a.batch) = a.total_tasks
                 /\ a.tasks_completed = a.total_tasks
                 /\ Answered(a) > 0
                 /\ b.batch = <<>>
           /\ b.adapt_record # None =>
                 Val(b.adapt_record).tempo_offset =
                    maybe_adapt(a, CHOOSE env \in PolicyEnvs : TRUE).tempo_offset]_vars

\* an adaptation step has just run at the end of a batch that is longer than
\* the rolling window and than check_every
C26_Witness ==
    /\ app # NoApp
    /\ Val(app).adapt_record # None
    /\ Val(app).batch = <<>>
    /\ Val(app).total_tasks > LevelConfig.window_size
    /\ Val(app).total_tasks > LevelConfig.check_every
    /\ Val(app).started

\* the floor of a task kind's time limit
TimeFloor(kind) == IF kind = "memory" THEN 1200 ELSE 900

\* C27: for every level and every tempo offset in [-2, 2] each time limit of
\* apply_tempo(apply_level(base, level), tempo) is at least its floor (900,
\* and 1200 for sequence memory), and with the tempo fixed it does not grow
\* when the level goes up by one; in both levels modules.
C27_FloorsAndMonotone ==
    config.level # None =>
      LET level == Val(config.level)
          tempo == Val(config.tempo_offset)
          limits == TimeLimits(Val(config.current_difficulty))
          game_limits == TimeLimits(Val(config.game_difficulty))
          next == TimeLimits(apply_tempo(apply_level(config.base, level + 1), tempo))
          game_next == TimeLimits(game_apply_tempo(
                          game_apply_level(GameDifficulty(config.base), level + 1), tempo))
      IN  /\ \A k \in DOMAIN limits :
                /\ limits[k] >= TimeFloor(k)
                /\ level < MaxLevel => next[k] <= limits[k]
          /\ \A k \in DOMAIN game_limits :
                /\ game_limits[k] >= TimeFloor(k)
                /\ level < MaxLevel => game_next[k] <= game_limits[k]

\* a level and a tempo under which one time limit sits on its floor while
\* another is above it, and the first level's bonus has been paid
C27_Witness ==
    /\ config.level # None
    /\ Val(config.level) > 1
    /\ Val(config.tempo_offset) = 2
    /\ Val(config.current_difficulty).compare.time_limit_ms = 900
    /\ Val(config.current_difficulty).memory.time_limit_ms > 1200
    /\ Val(config.game_difficulty).compare.time_limit_ms <
          TimeLimits(game_apply_level(GameDifficulty(config.base), 1)).compare

\* C28: a DifficultyConfig with a non-positive time limit is rejected when
\* the configuration or the scheduler is built, so that no task is ever
\* spawned whose deadline_ms is not after its created_ms.
C28_NoTaskWithoutTime ==
    \A i \in DOMAIN tm.active_tasks :
        tm.active_tasks[i].deadline_ms > tm.active_tasks[i].created_ms

SpawnedRuleSwitch ==
    \E i \in DOMAIN tm'.active_tasks :
        /\ tm'.active_tasks[i].spec.task_id = "rule_switch"
        /\ tm'.active_tasks[i].created_ms = now'
        /\ now' > now
        /\ tm'.active_tasks[i].spec.payload.rule = Some(tm'.current_rule)

\* C29: within a session the current rule changes only in a step that spawns
\* a rule-switch task, whose payload carries the rule after the flip; every
\* other step of a running session, the end of a batch included, leaves it
\* as it was.
C29_RuleOfTheSession ==
    [][(Val(app).started /\ tm'.current_rule # tm.current_rule) => SpawnedRuleSwitch]_vars

\* C30: tasks_created = tasks_completed + len(active_tasks) in every state of
\* the scheduler, a restored one included, so that is_done() holds only with
\* no task active.
C30_CreatedIsCompletedPlusActive ==
    /\ tm.tasks_created = tm.tasks_completed + Len(tm.active_tasks)
    /\ is_done(tm) => tm.active_tasks = <<>>

\* every task of a restored batch is created, one was completed before the
\* run was saved and the last one is in flight
C30_Witness ==
    /\ tm.tasks_created = tm.total_tasks
    /\ tm.tasks_completed >= 1
    /\ tm.active_tasks # <<>>
    /\ ~is_done(tm)
    /\ Val(app).started
    /\ Val(app).last_feedback_text = "session restored"

----------------------------------------------------------------------------
(* Properties of the tempo, of the difficulty handed to the scheduler and  *)
(* of paused sessions                                                      *)

\* C31: every AdaptationRecord has delta_tempo in {-1, 0, +1}, action_id =
\* delta_tempo + 1, and as its tempo_offset the tempo before the step moved
\* by delta_tempo and clamped to [-2, 2], in both strategies and whatever
\* mode switches, tempo raises at the top level, restarts and restores came
\* before.
C31_RecordedTempo ==
    [][Val(app').adapt_record # None =>
         LET record == Val(Val(app').adapt_record)
         IN  /\ record.delta_tempo \in {-1, 0, 1}
             /\ record.action_id = record.delta_tempo + 1
             /\ record.tempo_offset =
                   Clamp(-2, 2, Val(app).tempo_offset + record.delta_tempo)]_vars

\* C32 as stated: the end of a batch changes tempo_offset by at most 1 in
\* absolute value, the adaptation step and the tempo raise at the top level
\* taken together.
C32_TempoStepAtMostOne ==
    [][BatchEnds =>
         Val(app').tempo_offset - Val(app).tempo_offset \in {-1, 0, 1}]_vars

\* C32 as the code has it: at the end of a batch whose adaptation step is
\* decided by the policy the tempo changes by the recorded delta_tempo
\* (clamped to [-2, 2]) and then by 1 more (at most to +2) when the level-up
\* condition fires at max_level: by at most 2 in total, and by at most 1
\* when the tempo raise of the top level does not apply.
C32_TempoStepAtMostTwo ==
    [][(BatchEnds /\ Val(app').adapt_record # None
           /\ Val(Val(app').adapt_record).mode = "ppo") =>
         LET a == Val(app)
             b == Val(app')
             record == Val(b.adapt_record)
             raised == a.current_level = LevelConfig.max_level /\ PolicyLevelUpFires(a)
         IN  /\ record.tempo_offset = Clamp(-2, 2, a.tempo_offset + record.delta_tempo)
             /\ b.tempo_offset = IF raised THEN Min(2, record.tempo_offset + 1)
                                 ELSE record.tempo_offset
             /\ b.tempo_offset - a.tempo_offset \in -1..2
             /\ ~raised => b.tempo_offset - a.tempo_offset \in -1..1]_vars

\* a batch at the top level has just ended with the tempo two above where it
\* was: one by the policy's step and one by the tempo raise
C32_Witness ==
    /\ Val(app).adapt_record # None
    /\ Val(Val(app).adapt_record).mode = "ppo"
    /\ Val(Val(app).adapt_record).delta_tempo = 1
    /\ Val(Val(app).adapt_record).tempo_offset = 1
    /\ Val(app).tempo_offset = 2
    /\ Val(app).current_level = LevelConfig.max_level

\* C34: while the batch runs, the scheduler has completed as many tasks as
\* the batch has results (len(results) - batch_result_start), right after a
\* restore too.
C34_CompletedIsBatchLength ==
    Val(app).started => tm.tasks_completed = Len(Val(app).batch)

\* C33: while the session runs, the difficulty the scheduler holds is
\* apply_tempo(apply_level(base_difficulty, current_level), tempo_offset):
\* every step that changes the level or the tempo hands the recomputed
\* difficulty to the scheduler.
C33_SchedulerDifficulty ==
    Val(app).started =>
        config.difficulty = apply_tempo(apply_level(config.base, Val(app).current_level),
                                        Val(app).tempo_offset)

\* a batch ended with an adaptation step, the run goes on with a tempo that
\* makes the difficulty differ from the level's
C33_Witness ==
    /\ Val(app).started
    /\ Val(app).adapt_record # None
    /\ Val(app).tempo_offset # 0
    /\ config.difficulty # apply_level(config.base, Val(app).current_level)

\* C35: a frame that passes while the session is paused or not started
\* delivers no response to the scheduler and runs no update: the active
\* tasks, the counters and the result list stay as they are.
C35_PausedFrame ==
    [][(~Val(app).started /\ now' # now) =>
          /\ tm' = tm
          /\ results' = results
          /\ Val(app').batch = Val(app).batch
          /\ Val(app').tasks_completed = Val(app).tasks_completed]_vars

\* the session is paused with a task on screen, and frames have passed since
\* that task was created
C35_Witness ==
    /\ ~Val(app).started
    /\ tm.active_tasks # <<>>
    /\ \E i \in DOMAIN tm.active_tasks :
          /\ tm.active_tasks[i].created_ms < now
          /\ now < tm.active_tasks[i].deadline_ms

\* C36: a pause does not suspend the deadlines. An active task keeps its
\* deadline_ms through the frames of the pause and through the resume, and
\* a task whose deadline the clock has passed while the session was paused
\* is retired by the first frame after the resume: as a timeout, unless a
\* response of that frame finished it first.
C36_DeadlinesRunThroughPause ==
    [][/\ ((~Val(app).started \/ now' = now) /\ tm'.active_tasks # <<>>) =>
             tm'.active_tasks = tm.active_tasks
       /\ (Val(app).started /\ now' # now) =>
             \A i \in DOMAIN tm.active_tasks :
                LET t == tm.active_tasks[i]
                IN  t.deadline_ms <= now =>
                       \E k \in (Len(results) + 1)..Len(results') :
                          /\ results'[k].task_id = t.spec.task_id
                          /\ results'[k].created_ms = t.created_ms
                          /\ \/ results'[k].is_timeout /\ IsNone(results'[k].response)
                             \/ ~IsNone(results'[k].response) /\ results'[k].finished_ms = now']_vars

\* the session runs again with a task on screen whose deadline passed during
\* the pause
C36_Witness ==
    /\ Val(app).started
    /\ \E i \in DOMAIN tm.active_tasks : tm.active_tasks[i].deadline_ms < now

\* C37: a sequence memory has query_ready_ms <= deadline_ms - 200, and a
\* frame whose clock is before query_ready_ms leaves it as it was, whatever
\* the frame's events: unfinished, without a response, and among the active
\* tasks, no further from the front (the focused one stays focused).
C37_QueryGate ==
    [][/\ \A m \in {tm, tm'} : \A i \in DOMAIN m.active_tasks :
             m.active_tasks[i].spec.task_id = "sequence_memory" =>
                Val(m.active_tasks[i].query_ready_ms) <= m.active_tasks[i].deadline_ms - 200
       /\ \A i \in DOMAIN tm.active_tasks :
             LET t == tm.active_tasks[i]
             IN  (t.spec.task_id = "sequence_memory" /\ now' < Val(t.query_ready_ms)) =>
                    /\ IsNone(t.finished_ms) /\ IsNone(t.response)
                    /\ \E j \in 1..i : j \in DOMAIN tm'.active_tasks /\ tm'.active_tasks[j] = t
                    /\ i = 1 => tm'.active_tasks[1] = t]_vars

\* the last frame delivered a response to the focused sequence memory before
\* its query was ready, and the task is still the focused one; its
\* query_ready_ms is the latest one, deadline_ms - 200
C37_Witness ==
    /\ tm.active_tasks # <<>>
    /\ LET t == tm.active_tasks[1]
       IN  /\ t.spec.task_id = "sequence_memory"
           /\ t.created_ms < now
           /\ now < Val(t.query_ready_ms)
           /\ Val(t.query_ready_ms) = t.deadline_ms - 200
           /\ IsNone(t.finished_ms)
    /\ results = <<>>
    /\ \E k \in DOMAIN delivered : ~IsNone(read_left_right_key(delivered[k]))

(* Properties of the telemetry queue *)

\* C38: the events the server has acknowledged, followed by the queue, are
\* the tracked events in the order tracked, and the queue file holds the
\* queue. A call removes from the queue exactly the events of the requests
\* that were acknowledged (HTTP 200 with ok = true), from the front; a
\* request that fails ends the call with the queue as it was before that
\* request, a forced flush ends with an empty queue or with a failed
\* request, and any other flush sends one request.
C38_QueueUntilAcknowledged ==
    [][LET c == Val(app).telemetry
           d == Val(app').telemetry
           tracked == SubSeq(emitted', Len(emitted) + 1, Len(emitted'))
           failed == got' # <<>> /\ got'[Len(got')].reply # Acknowledged
       IN  /\ delivered' \o d.queue = emitted'
           /\ load_queue(config'.queue_file) = d.queue
           /\ AckedEvents(got') \o d.queue = c.queue \o tracked
           /\ \A k \in DOMAIN got' :
                 /\ got'[k].events # <<>>
                 /\ k < Len(got') => got'[k].reply = Acknowledged
           /\ failed => got'[Len(got')].events =
                           SubSeq(d.queue, 1, Len(got'[Len(got')].events))
           /\ (got' # <<>> /\ got'[1].force) => (d.queue = <<>> \/ failed)
           /\ (got' # <<>> /\ ~got'[1].force) => Len(got') = 1]_vars

\* a forced flush has sent the queue in more than one request, the server
\* acknowledged the first and failed the next, and events are still queued
C38_Witness ==
    /\ Len(got) > 1
    /\ got[1].force
    /\ got[1].reply = Acknowledged
    /\ got[Len(got)].reply # Acknowledged
    /\ Val(app).telemetry.queue # <<>>
    /\ delivered # <<>>

(* Properties of a block of trials *)

\* C39: once the block is started, its results are the events of the trials
\* 0, 1, ... in that order, one per trial, and the trial that runs is the
\* next one; is_finished() holds exactly when n_trials events are recorded.
\* An event is appended by the update that finds the ITI elapsed, that
\* update starts the next trial at its own clock, and after the block has
\* finished an update changes nothing.
C39_OneEventPerTrial ==
    [][LET scene == Val(app)
           after == Val(app')
       IN  /\ after.started =>
                 /\ after.finished <=> Len(after.results) = after.params.n_trials
                 /\ Len(after.results) = after.current_index
                 /\ \A k \in DOMAIN after.results : after.results[k].trial_index = k - 1
                 /\ ~after.finished =>
                       after.sm.trial = Some(after.trials[after.current_index + 1])
           /\ (scene.started /\ after.results # scene.results) =>
                 /\ after.results = Append(scene.results, TrialEvent(scene.sm))
                 /\ scene.sm.phase = PHASE_ITI
                 /\ now' - scene.sm.phase_started_at_ms >= scene.params.iti_ms
                 /\ ~after.finished =>
                       /\ after.sm.phase = PHASE_CUE
                       /\ after.sm.phase_started_at_ms = now'
                       /\ Val(after.sm.trial).trial_index = Val(scene.sm.trial).trial_index + 1
           /\ (scene.started /\ ~scene.finished /\ scene.sm.phase = PHASE_ITI /\ now' # now
                 /\ now' - scene.sm.phase_started_at_ms >= scene.params.iti_ms) =>
                 Len(after.results) = Len(scene.results) + 1
           /\ (scene.finished /\ now' # now) => after = scene]_vars

\* a block of two trials has finished, an update has run after the one
\* that finished it, and a key pressed after the end is still pending
C39_Witness ==
    /\ Val(app).finished
    /\ Len(Val(app).results) = 2
    /\ now >= Val(app).sm.phase_started_at_ms + 3 * TickMs
    /\ ~IsNone(Val(app).input.last_action)

\* C40: the phases follow CUE -> WAIT -> FEEDBACK -> ITI (-> CUE of the
\* next trial). An update takes the pending action away, and only an update
\* in WAIT records it: with rt_ms = now - wait start, is_timeout false and
\* is_correct by the trial's correct action. In CUE, FEEDBACK and ITI the
\* response fields stay as they are (or are reset by the start of the next
\* trial, which starts without a pending action). A WAIT ends without a
\* response only when time_limit_ms has passed with no action: is_timeout
\* true, rt_ms None, is_correct false; no WAIT lasts beyond time_limit_ms.
C40_ResponseOnlyInWait ==
    [][LET scene == Val(app)
           after == Val(app')
           sm == scene.sm
           next == after.sm
           action == scene.input.last_action
           fields(m) == <<m.response_action, m.rt_ms, m.is_timeout, m.is_correct>>
       IN  (scene.started /\ ~scene.finished) =>
             /\ next.phase # sm.phase =>
                   <<sm.phase, next.phase>> \in
                      {<<PHASE_CUE, PHASE_WAIT>>, <<PHASE_WAIT, PHASE_FEEDBACK>>,
                       <<PHASE_FEEDBACK, PHASE_ITI>>, <<PHASE_ITI, PHASE_CUE>>}
             /\ now' # now => IsNone(after.input.last_action)
             /\ (now' # now /\ sm.phase = PHASE_WAIT /\ ~IsNone(action)) =>
                   /\ next.phase = PHASE_FEEDBACK
                   /\ fields(next) = <<action, Some(now' - Val(sm.wait_started_at_ms)), FALSE,
                                       Val(action) = Val(sm.trial).correct_action>>
             /\ (now' # now /\ sm.phase = PHASE_WAIT /\ IsNone(action)) =>
                   IF now' - Val(sm.wait_started_at_ms) >= sm.params.time_limit_ms
                   THEN next.phase = PHASE_FEEDBACK /\ fields(next) = <<None, None, TRUE, FALSE>>
                   ELSE next = sm
             /\ sm.phase # PHASE_WAIT \/ now' = now =>
                   \/ fields(next) = fields(sm) /\ next.trial = sm.trial
                   \/ /\ sm.phase = PHASE_ITI /\ next.phase = PHASE_CUE
                      /\ fields(next) = <<None, None, FALSE, FALSE>>
                      /\ IsNone(after.input.last_action)
             /\ next.phase = PHASE_WAIT =>
                   now' - Val(next.wait_started_at_ms) < next.params.time_limit_ms]_vars

\* in a block with waiting times the first trial timed out and the second
\* was answered with the correct action
C40_Witness ==
    /\ Len(Val(app).results) = 2
    /\ Val(app).results[1].is_timeout
    /\ IsNone(Val(app).results[1].rt_ms)
    /\ ~Val(app).results[2].is_timeout
    /\ Val(app).results[2].is_correct
    /\ Val(app).params.cue_ms > 0

====
